---- MODULE Spec2Model ----
(***************************************************************************)
(* Granite: the tag cache (backend/services/tag_service.py and its copy in *)
(* backend/utils.py), the note and folder operations that invalidate it,   *)
(* and the plugin hook pipeline (backend/plugins.py).                      *)
(*                                                                         *)
(* Text is a sequence of one-character strings.  An optional value is a    *)
(* sequence of length 0 (None) or 1 (the value).                           *)
(***************************************************************************)
EXTENDS Integers, Sequences, FiniteSets, TLC

\* ------------------------------------------------------------------ text

\* The characters of the model's texts in code-point order (str comparison).
Chars ==
    << "\t", "\n", " ", "!", "#", "%", "(", ")", ",", "-", ".", "/", "0", "2", ":",
       "A", "B", "H", "I", "X", "Y", "[", "]",
       "a", "b", "d", "e", "g", "h", "i", "l", "m", "n", "o", "p", "s", "t",
       "x", "y", "z", "|" >>

ord(c) == CHOOSE i \in 1..Len(Chars) : Chars[i] = c

\* str.lower() on one character
LowerChar(c) ==
    CASE c = "A" -> "a"
      [] c = "B" -> "b"
      [] c = "H" -> "h"
      [] c = "I" -> "i"
      [] c = "X" -> "x"
      [] c = "Y" -> "y"
      [] OTHER -> c

\* str.upper() on one character
UpperChar(c) ==
    CASE c = "a" -> "A"
      [] c = "b" -> "B"
      [] c = "h" -> "H"
      [] c = "i" -> "I"
      [] c = "x" -> "X"
      [] c = "y" -> "Y"
      [] OTHER -> c

lower(s) == [i \in 1..Len(s) |-> LowerChar(s[i])]
upper(s) == [i \in 1..Len(s) |-> UpperChar(s[i])]

Whitespace == {" ", "\t", "\n"}

RECURSIVE lstrip(_)
lstrip(s) ==
    IF s # <<>> /\ Head(s) \in Whitespace THEN lstrip(Tail(s)) ELSE s

RECURSIVE rstrip(_)
rstrip(s) ==
    IF s # <<>> /\ s[Len(s)] \in Whitespace
    THEN rstrip(SubSeq(s, 1, Len(s) - 1))
    ELSE s

strip(s) == rstrip(lstrip(s))

\* str.lstrip(c) for a single character c
RECURSIVE lstrip_char(_, _)
lstrip_char(s, c) ==
    IF s # <<>> /\ Head(s) = c THEN lstrip_char(Tail(s), c) ELSE s

startswith(s, prefix) ==
    /\ Len(prefix) <= Len(s)
    /\ SubSeq(s, 1, Len(prefix)) = prefix

endswith(s, suffix) ==
    /\ Len(suffix) <= Len(s)
    /\ SubSeq(s, Len(s) - Len(suffix) + 1, Len(s)) = suffix

contains(s, c) == \E i \in 1..Len(s) : s[i] = c

\* str.split(sep) for a one-character separator: empty pieces are kept
RECURSIVE split(_, _)
split(s, sep) ==
    IF ~contains(s, sep)
    THEN << s >>
    ELSE LET i == CHOOSE k \in 1..Len(s) :
                      s[k] = sep /\ \A j \in 1..(k - 1) : s[j] # sep
         IN  << SubSeq(s, 1, i - 1) >> \o split(SubSeq(s, i + 1, Len(s)), sep)

\* str.split() without argument: runs of whitespace separate, no empty pieces
RECURSIVE split_ws(_)
split_ws(s) ==
    LET t == lstrip(s)
    IN  IF t = <<>>
        THEN <<>>
        ELSE IF \A k \in 1..Len(t) : t[k] \notin Whitespace
             THEN << t >>
             ELSE LET i == CHOOSE k \in 1..Len(t) :
                               t[k] \in Whitespace
                               /\ \A j \in 1..(k - 1) : t[j] \notin Whitespace
                  IN  << SubSeq(t, 1, i - 1) >>
                          \o split_ws(SubSeq(t, i + 1, Len(t)))

\* s < t in Python's str order
RECURSIVE str_less(_, _)
str_less(s, t) ==
    IF t = <<>> THEN FALSE
    ELSE IF s = <<>> THEN TRUE
    ELSE IF Head(s) # Head(t) THEN ord(Head(s)) < ord(Head(t))
    ELSE str_less(Tail(s), Tail(t))

\* sorted(S) for a set of texts
RECURSIVE sorted(_)
sorted(S) ==
    IF S = {} THEN <<>>
    ELSE LET least == CHOOSE x \in S : \A y \in S \ {x} : str_less(x, y)
         IN  << least >> \o sorted(S \ {least})

Range(f) == {f[i] : i \in DOMAIN f}

\* ------------------------------------------------------------ tag parsing

\* A part that contributes its tag and no segment of it.
tags_of_part_unexpanded(part) ==
    {lower(strip(lstrip_char(strip(part), "#")))} \ { <<>> }

\* The tags one comma- or whitespace-separated part contributes.
tags_of_part(part) ==
    LET tag == lower(strip(lstrip_char(strip(part), "#")))
    IN  IF tag = <<>> THEN {}
        ELSE {tag} \cup
             ( IF contains(tag, "/")
               THEN {strip(seg) : seg \in Range(split(tag, "/"))} \ {<<>>}
               ELSE {} )

\* _normalize_tags(raw) for a str: the set it sorts
normalize_str_set(raw) ==
    LET text == strip(raw)
        parts == IF contains(text, ",") THEN split(text, ",") ELSE split_ws(text)
    IN  IF text = <<>> THEN {}
        ELSE UNION {tags_of_part(parts[i]) : i \in DOMAIN parts}

\* _normalize_tags(raw) for a str
normalize_tags_str(raw) == sorted(normalize_str_set(raw))

\* _normalize_tags(raw) for a list of str
normalize_tags_list(raw) ==
    sorted(UNION {Range(normalize_tags_str(raw[i])) : i \in DOMAIN raw})

\* The loop over the frontmatter lines, from line i, with the loop's state.
RECURSIVE scan_frontmatter(_, _, _, _)
scan_frontmatter(lines, i, in_tags_list, raw_list_items) ==
    IF i > Len(lines)
    THEN IF raw_list_items # <<>> THEN normalize_tags_list(raw_list_items) ELSE <<>>
    ELSE LET stripped == strip(lines[i])
         IN  IF startswith(stripped, <<"t", "a", "g", "s", ":">>)
             THEN LET rest == strip(SubSeq(stripped, 6, Len(stripped)))
                  IN  IF startswith(rest, <<"[">>) /\ endswith(rest, <<"]">>)
                      THEN LET tags_str == SubSeq(rest, 2, Len(rest) - 1)
                               pieces == split(tags_str, ",")
                           IN  normalize_tags_list(
                                   [k \in DOMAIN pieces |-> strip(pieces[k])])
                      ELSE IF rest # <<>>
                           THEN normalize_tags_str(rest)
                           ELSE scan_frontmatter(lines, i + 1, TRUE, raw_list_items)
             ELSE IF in_tags_list
                  THEN IF startswith(stripped, <<"-">>)
                       THEN LET tag == strip(SubSeq(stripped, 2, Len(stripped)))
                            IN  scan_frontmatter(lines, i + 1, TRUE,
                                    IF tag # <<>>
                                    THEN Append(raw_list_items, tag)
                                    ELSE raw_list_items)
                       ELSE IF stripped # <<>>
                            THEN IF raw_list_items # <<>>
                                 THEN normalize_tags_list(raw_list_items)
                                 ELSE <<>>
                            ELSE scan_frontmatter(lines, i + 1, TRUE, raw_list_items)
                  ELSE scan_frontmatter(lines, i + 1, FALSE, raw_list_items)

Dashes == <<"-", "-", "-">>

\* parse_tags(content): the sorted tag list of the frontmatter
parse_tags(content) ==
    IF ~startswith(strip(content), Dashes)
    THEN <<>>
    ELSE LET lines == split(content, "\n")
         IN  IF strip(lines[1]) # Dashes
             THEN <<>>
             ELSE IF ~\E i \in 2..Len(lines) : strip(lines[i]) = Dashes
                  THEN <<>>
                  ELSE LET end_idx == CHOOSE i \in 2..Len(lines) :
                                          /\ strip(lines[i]) = Dashes
                                          /\ \A j \in 2..(i - 1) :
                                                 strip(lines[j]) # Dashes
                       IN  scan_frontmatter(SubSeq(lines, 2, end_idx - 1),
                                            1, FALSE, <<>>)

\* ------------------------------------------------------------- file system

\* config["storage"]["notes_dir"]
NotesDir == <<"/", "n">>

\* str(Path(notes_dir) / rel)
full_path(rel) == NotesDir \o <<"/">> \o rel

MdSuffix == <<".", "m", "d">>

FolderNames == { <<"a">>, <<"a", "b">> }

NoteName == <<"x">> \o MdSuffix

NotePaths == { f \o <<"/">> \o NoteName : f \in FolderNames }

\* A relative path that leaves the notes directory.
EscapePath == <<".", ".", "/">> \o NoteName

\* The note texts the model writes.
NoteX == <<"-", "-", "-", "\n", "t", "a", "g", "s", ":", " ", "[", "x", "]", "\n",
           "-", "-", "-", "\n", "h", "i">>
NoteY == <<"-", "-", "-", "\n", "t", "a", "g", "s", ":", " ", "#", "Y", "\n",
           "-", "-", "-">>

NoteContents == {NoteX, NoteY}

\* The number of writes the model follows: the clock ticks once per write.
MaxClock == 3

\* The two modules that each hold a _tag_cache and the operations on it.
Modules == {"services", "utils"}

VARIABLES
    files,          \* full path of each regular file |-> [mtime, content, utf8]
    dirs,           \* full paths of the directories under (and including) NotesDir
    clock,          \* the time of the newest write so far
    mtime_history,  \* "fresh": every write was stamped later than all before it;
                    \* "changed": every rewrite changed the mtime, not always to a
                    \* later one; "kept": some rewrite left the mtime as it was
    tag_cache,      \* per module, _tag_cache: full path |-> [mtime, tags]
    plugins,        \* PluginManager.plugins in dict order: [id, class, enabled]
    config_file,    \* plugin_config.json: [kind, data]
    last            \* the call that made the latest step, with what it returned

cache_vars == <<files, dirs, clock, mtime_history, tag_cache>>

plugin_vars == <<plugins, config_file>>

\* What the file and cache operations leave alone.
not_cache_vars == plugin_vars

\* What the plugin manager's operations leave alone.
not_plugin_vars == cache_vars

exists(path) == path \in DOMAIN files \/ path \in dirs

is_dir(path) == path \in dirs

\* Path.parent
parent(path) ==
    LET i == CHOOSE k \in 1..Len(path) :
                 path[k] = "/" /\ \A j \in (k + 1)..Len(path) : path[j] # "/"
    IN  IF i = 1 THEN <<"/">> ELSE SubSeq(path, 1, i - 1)

\* mkdir(parents=True, exist_ok=True) under the notes directory
RECURSIVE mkdir_parents(_, _)
mkdir_parents(ds, path) ==
    IF path \in ds \/ ~startswith(path, NotesDir) \/ Len(path) <= Len(NotesDir)
    THEN ds
    ELSE mkdir_parents(ds, parent(path)) \cup {path}

\* Whether the path, resolved segment by segment, climbs above its start.
RECURSIVE climbs_out(_, _)
climbs_out(segs, depth) ==
    IF segs = <<>> THEN FALSE
    ELSE IF Head(segs) = <<".", ".">>
         THEN depth = 0 \/ climbs_out(Tail(segs), depth - 1)
         ELSE climbs_out(Tail(segs), depth + 1)

\* validate_path_security(notes_dir, Path(notes_dir) / rel)
validate_path_security(rel) == ~climbs_out(split(rel, "/"), 0)

\* path is the directory or lies under it
inside(path, dir) == path = dir \/ startswith(path, dir \o <<"/">>)

\* The dict without the given keys.
without(d, keys) == [k \in DOMAIN d \ keys |-> d[k]]

\* The dict with d[k] = v.
with(d, k, v) == [x \in DOMAIN d \cup {k} |-> IF x = k THEN v ELSE d[x]]

\* ---------------------------------------------------------------- tag cache

\* get_tags_try with the mtime comparison left out: any entry is a hit.
get_tags_try_any_entry(cache, key, io) ==
    IF key \notin DOMAIN files
    THEN [exc |-> "FileNotFoundError", ret |-> <<>>, cache |-> cache, opened |-> FALSE]
    ELSE IF io = "stat_denied"
    THEN [exc |-> "PermissionError", ret |-> <<>>, cache |-> cache, opened |-> FALSE]
    ELSE IF key \in DOMAIN cache
    THEN [exc |-> "", ret |-> cache[key].tags, cache |-> cache, opened |-> FALSE]
    ELSE IF io = "open_denied"
    THEN [exc |-> "PermissionError", ret |-> <<>>, cache |-> cache, opened |-> TRUE]
    ELSE IF ~files[key].utf8
    THEN [exc |-> "UnicodeDecodeError", ret |-> <<>>, cache |-> cache, opened |-> TRUE]
    ELSE LET tags == parse_tags(files[key].content)
         IN  [exc |-> "", ret |-> tags,
              cache |-> with(cache, key, [mtime |-> files[key].mtime, tags |-> tags]),
              opened |-> TRUE]

\* get_tags_try with the cache lookup left out: every call reads the file.
get_tags_try_always_reads(cache, key, io) ==
    IF key \notin DOMAIN files
    THEN [exc |-> "FileNotFoundError", ret |-> <<>>, cache |-> cache, opened |-> FALSE]
    ELSE IF io = "stat_denied"
    THEN [exc |-> "PermissionError", ret |-> <<>>, cache |-> cache, opened |-> FALSE]
    ELSE IF io = "open_denied"
    THEN [exc |-> "PermissionError", ret |-> <<>>, cache |-> cache, opened |-> TRUE]
    ELSE IF ~files[key].utf8
    THEN [exc |-> "UnicodeDecodeError", ret |-> <<>>, cache |-> cache, opened |-> TRUE]
    ELSE LET tags == parse_tags(files[key].content)
         IN  [exc |-> "", ret |-> tags,
              cache |-> with(cache, key, [mtime |-> files[key].mtime, tags |-> tags]),
              opened |-> TRUE]

\* What the body of get_tags_cached's try block does: the exception it ends
\* with ("" when it returns), the value it returns, the cache it leaves and
\* whether it opened the file.  stat() and open() can be refused.
get_tags_try(cache, key, io) ==
    IF key \notin DOMAIN files
    THEN [exc |-> "FileNotFoundError", ret |-> <<>>, cache |-> cache, opened |-> FALSE]
    ELSE IF io = "stat_denied"
    THEN [exc |-> "PermissionError", ret |-> <<>>, cache |-> cache, opened |-> FALSE]
    ELSE LET mtime == files[key].mtime
         IN  IF key \in DOMAIN cache /\ cache[key].mtime = mtime
             THEN [exc |-> "", ret |-> cache[key].tags, cache |-> cache,
                   opened |-> FALSE]
             ELSE IF io = "open_denied"
             THEN [exc |-> "PermissionError", ret |-> <<>>, cache |-> cache,
                   opened |-> TRUE]
             ELSE IF ~files[key].utf8
             THEN [exc |-> "UnicodeDecodeError", ret |-> <<>>, cache |-> cache,
                   opened |-> TRUE]
             ELSE LET tags == parse_tags(files[key].content)
                  IN  [exc |-> "", ret |-> tags,
                       cache |-> with(cache, key, [mtime |-> mtime, tags |-> tags]),
                       opened |-> TRUE]

\* A handler that catches a missing file only.
CaughtOnlyFileNotFound == {"FileNotFoundError"}

\* The exceptions "except Exception" catches: all the try block can end with.
CaughtExceptions == {"FileNotFoundError", "PermissionError", "UnicodeDecodeError"}

\* get_tags_cached(file_path): the try block, then the handler
get_tags_cached(cache, key, io) ==
    LET t == get_tags_try(cache, key, io)
    IN  IF t.exc = ""
        THEN [ret |-> t.ret, raised |-> "", cache |-> t.cache, opened |-> t.opened]
        ELSE IF t.exc \in CaughtExceptions
        THEN [ret |-> <<>>, raised |-> "", cache |-> t.cache, opened |-> t.opened]
        ELSE [ret |-> <<>>, raised |-> t.exc, cache |-> t.cache, opened |-> t.opened]

\* keys_to_delete comparing the whole key with the folder's path.
keys_to_delete_exact(cache, folder_path_str) ==
    {key \in DOMAIN cache : key = folder_path_str}

\* The keys move_folder and delete_folder drop for a folder.
keys_to_delete(cache, folder_path_str) ==
    {key \in DOMAIN cache : startswith(key, folder_path_str)}

\* The key the note operations pop.
key_to_pop(note_full_path) == {note_full_path}

\* What the operating system answers a call: all is well, or stat() or open()
\* is refused (a permission error).
IoOutcomes == {"ok", "stat_denied", "open_denied"}

\* get_tags_cached(file_path) of module m is called on a note path.
GetTagsCached(m) ==
    \E rel \in NotePaths, io \in IoOutcomes :
        LET key == full_path(rel)
            r == get_tags_cached(tag_cache[m], key, io)
        IN  /\ tag_cache' = [tag_cache EXCEPT ![m] = r.cache]
            /\ last' = [op |-> "get_tags_cached", m |-> m, path |-> rel, io |-> io,
                        was_cached |-> key \in DOMAIN tag_cache[m],
                        ret |-> r.ret, raised |-> r.raised, opened |-> r.opened]
            /\ UNCHANGED <<files, dirs, clock, mtime_history, not_cache_vars>>

\* clear_tag_cache() of module m
ClearTagCache(m) ==
    /\ tag_cache' = [tag_cache EXCEPT ![m] = <<>>]
    /\ last' = [op |-> "clear_tag_cache", m |-> m]
    /\ UNCHANGED <<files, dirs, clock, mtime_history, not_cache_vars>>

\* save_note(notes_dir, note_path, content); the two modules' copies are the
\* same and touch no cache.  The write is stamped with the next clock time.
SaveNote ==
    \E rel \in NotePaths \cup {EscapePath, <<"a", "/", "x">>}, content \in NoteContents :
        LET named == IF endswith(rel, MdSuffix) THEN rel ELSE rel \o MdSuffix
            key == full_path(named)
        IN  IF ~validate_path_security(named)
            THEN /\ last' = [op |-> "save_note", path |-> rel, ret |-> FALSE]
                 /\ UNCHANGED <<cache_vars, not_cache_vars>>
            ELSE /\ clock < MaxClock
                 /\ key \notin dirs
                 /\ clock' = clock + 1
                 /\ dirs' = mkdir_parents(dirs, parent(key))
                 /\ files' = with(files, key, [mtime |-> clock + 1, content |-> content,
                                               utf8 |-> TRUE])
                 /\ last' = [op |-> "save_note", path |-> rel, ret |-> TRUE]
                 /\ UNCHANGED <<mtime_history, tag_cache, not_cache_vars>>

\* What another process may write: one of the note texts, or bytes that are no
\* UTF-8 text.
WrittenBytes ==
    {[content |-> c, utf8 |-> TRUE] : c \in NoteContents}
        \cup {[content |-> <<>>, utf8 |-> FALSE]}

\* Another process (an editor, a restore, a sync) rewrites an existing note with
\* any bytes and any mtime up to the current time.
ExternalWrite ==
    \E rel \in NotePaths, written \in WrittenBytes, mtime \in 1..MaxClock :
        LET key == full_path(rel)
        IN  /\ key \in DOMAIN files
            /\ clock < MaxClock
            /\ mtime <= clock + 1
            /\ clock' = clock + 1
            /\ files' = [files EXCEPT ![key] = [mtime |-> mtime,
                                                content |-> written.content,
                                                utf8 |-> written.utf8]]
            /\ mtime_history' =
                   IF mtime > clock THEN mtime_history
                   ELSE IF mtime = files[key].mtime \/ mtime_history = "kept"
                   THEN "kept"
                   ELSE "changed"
            /\ last' = [op |-> "external_write", path |-> rel]
            /\ UNCHANGED <<dirs, tag_cache, not_cache_vars>>

\* delete_note(notes_dir, note_path) of module m
DeleteNote(m) ==
    \E rel \in NotePaths \cup {EscapePath} :
        LET key == full_path(rel)
        IN  IF ~exists(key) \/ ~validate_path_security(rel)
            THEN /\ last' = [op |-> "delete_note", m |-> m, path |-> rel, ret |-> FALSE]
                 /\ UNCHANGED <<cache_vars, not_cache_vars>>
            ELSE /\ tag_cache' = [tag_cache EXCEPT
                                     ![m] = without(tag_cache[m], key_to_pop(key))]
                 /\ files' = without(files, {key})
                 /\ last' = [op |-> "delete_note", m |-> m, path |-> rel, ret |-> TRUE,
                             dropped |-> key_to_pop(key) \cap DOMAIN tag_cache[m]]
                 /\ UNCHANGED <<dirs, clock, mtime_history, not_cache_vars>>

\* A move that does not look at the target first: rename() replaces it.
MoveNote_onto_existing(m) ==
    \E old \in NotePaths \cup {EscapePath}, new \in NotePaths \cup {EscapePath} :
        LET old_key == full_path(old)
            new_key == full_path(new)
        IN  IF \/ ~validate_path_security(old) \/ ~validate_path_security(new)
               \/ ~exists(old_key)
            THEN /\ last' = [op |-> "move_note", m |-> m, path |-> old, new_path |-> new,
                             ret |-> FALSE]
                 /\ UNCHANGED <<cache_vars, not_cache_vars>>
            ELSE /\ tag_cache' = [tag_cache EXCEPT
                                     ![m] = without(tag_cache[m], key_to_pop(old_key))]
                 /\ dirs' = mkdir_parents(dirs, parent(new_key))
                 /\ files' = with(without(files, {old_key}), new_key, files[old_key])
                 /\ last' = [op |-> "move_note", m |-> m, path |-> old, new_path |-> new,
                             ret |-> TRUE,
                             dropped |-> key_to_pop(old_key) \cap DOMAIN tag_cache[m]]
                 /\ UNCHANGED <<clock, mtime_history, not_cache_vars>>

\* move_note(notes_dir, old_path, new_path) of module m
MoveNote(m) ==
    \E old \in NotePaths \cup {EscapePath}, new \in NotePaths \cup {EscapePath} :
        LET old_key == full_path(old)
            new_key == full_path(new)
        IN  IF \/ ~validate_path_security(old) \/ ~validate_path_security(new)
               \/ ~exists(old_key)
               \/ exists(new_key)
            THEN /\ last' = [op |-> "move_note", m |-> m, path |-> old, new_path |-> new,
                             ret |-> FALSE]
                 /\ UNCHANGED <<cache_vars, not_cache_vars>>
            ELSE /\ tag_cache' = [tag_cache EXCEPT
                                     ![m] = without(tag_cache[m], key_to_pop(old_key))]
                 /\ dirs' = mkdir_parents(dirs, parent(new_key))
                 /\ files' = with(without(files, {old_key}), new_key, files[old_key])
                 /\ last' = [op |-> "move_note", m |-> m, path |-> old, new_path |-> new,
                             ret |-> TRUE,
                             dropped |-> key_to_pop(old_key) \cap DOMAIN tag_cache[m]]
                 /\ UNCHANGED <<clock, mtime_history, not_cache_vars>>

\* shutil.move(old, new) of a directory onto a free path: the new path of p
moved(p, old, new) ==
    IF inside(p, old) THEN new \o SubSeq(p, Len(old) + 1, Len(p)) ELSE p

\* move_folder(notes_dir, old_path, new_path) of module m (rename_folder is the same)
MoveFolder(m) ==
    \E old \in FolderNames, new \in FolderNames :
        LET old_dir == full_path(old)
            new_dir == full_path(new)
        IN  IF \/ ~validate_path_security(old) \/ ~validate_path_security(new)
               \/ ~exists(old_dir) \/ ~is_dir(old_dir)
               \/ exists(new_dir)
            THEN /\ last' = [op |-> "move_folder", m |-> m, path |-> old, new_path |-> new,
                             ret |-> FALSE]
                 /\ UNCHANGED <<cache_vars, not_cache_vars>>
            ELSE /\ tag_cache' = [tag_cache EXCEPT
                       ![m] = without(tag_cache[m], keys_to_delete(tag_cache[m], old_dir))]
                 /\ dirs' = {moved(d, old_dir, new_dir) :
                                 d \in mkdir_parents(dirs, parent(new_dir))}
                 /\ files' = [k \in {moved(f, old_dir, new_dir) : f \in DOMAIN files} |->
                                 files[CHOOSE f \in DOMAIN files :
                                           moved(f, old_dir, new_dir) = k]]
                 /\ last' = [op |-> "move_folder", m |-> m, path |-> old, new_path |-> new,
                             ret |-> TRUE,
                             dropped |-> keys_to_delete(tag_cache[m], old_dir)]
                 /\ UNCHANGED <<clock, mtime_history, not_cache_vars>>

\* delete_folder(notes_dir, folder_path) of module m
DeleteFolder(m) ==
    \E folder \in FolderNames :
        LET dir == full_path(folder)
        IN  IF ~validate_path_security(folder) \/ ~exists(dir) \/ ~is_dir(dir)
            THEN /\ last' = [op |-> "delete_folder", m |-> m, path |-> folder, ret |-> FALSE]
                 /\ UNCHANGED <<cache_vars, not_cache_vars>>
            ELSE /\ tag_cache' = [tag_cache EXCEPT
                       ![m] = without(tag_cache[m], keys_to_delete(tag_cache[m], dir))]
                 /\ dirs' = {d \in dirs : ~inside(d, dir)}
                 /\ files' = without(files, {f \in DOMAIN files : inside(f, dir)})
                 /\ last' = [op |-> "delete_folder", m |-> m, path |-> folder, ret |-> TRUE,
                             dropped |-> keys_to_delete(tag_cache[m], dir)]
                 /\ UNCHANGED <<clock, mtime_history, not_cache_vars>>

vars == <<files, dirs, clock, mtime_history, tag_cache, plugins, config_file, last>>

\* An empty notes directory, empty caches and an empty plugins directory.
Init ==
    /\ files = <<>>
    /\ dirs = {NotesDir}
    /\ clock = 0
    /\ mtime_history = "fresh"
    /\ tag_cache = [m \in Modules |-> <<>>]
    /\ plugins = <<>>
    /\ config_file = [kind |-> "missing"]
    /\ last = [op |-> "start"]

\* The services package on its own: tag_service, note_service and folder_service
\* share tag_service._tag_cache.  (backend/main.py uses the copies in
\* backend/utils.py in the same way, with utils._tag_cache.)
Next ==
    \/ GetTagsCached("services")
    \/ ClearTagCache("services")
    \/ SaveNote
    \/ ExternalWrite
    \/ DeleteNote("services")
    \/ MoveNote("services")
    \/ MoveFolder("services")
    \/ DeleteFolder("services")

Spec == Init /\ [][Next]_vars

\* The notes and tags routers: routers/notes.py imports the note operations
\* from backend.services, routers/tags.py imports the tag queries from
\* backend.utils.
NextRouters ==
    \/ GetTagsCached("services")
    \/ GetTagsCached("utils")
    \/ SaveNote
    \/ DeleteNote("services")
    \/ MoveNote("services")

SpecRouters == Init /\ [][NextRouters]_vars

\* ------------------------------------------------------ claims: tag cache

\* The latest step was a get_tags_cached call.
GotTags == last.op = "get_tags_cached"

\* The latest get_tags_cached call met no I/O failure: the file is there, is
\* UTF-8 text, and neither stat() nor open() was refused.
NoIoFailure ==
    /\ full_path(last.path) \in DOMAIN files
    /\ files[full_path(last.path)].utf8
    /\ last.io = "ok"

\* C1 as claimed: whenever every rewrite so far changed the file's mtime, a
\* get_tags_cached call returns parse_tags of the file's content at the time of
\* the call.
C1_ChangedMtimeGivesCurrentTags ==
    (GotTags /\ NoIoFailure /\ mtime_history # "kept")
        => last.ret = parse_tags(files[full_path(last.path)].content)

\* C1 amended: whenever every write so far stamped its file with an mtime later
\* than every mtime stamped before, a get_tags_cached call returns parse_tags
\* of the file's content at the time of the call.
C1_FreshMtimeGivesCurrentTags ==
    (GotTags /\ NoIoFailure /\ mtime_history = "fresh")
        => last.ret = parse_tags(files[full_path(last.path)].content)

\* C1 witness: a call found an entry of an earlier version of the file, read the
\* rewritten file and returned its tags.
C1_Witness ==
    /\ GotTags /\ NoIoFailure /\ mtime_history = "fresh"
    /\ last.was_cached /\ last.opened
    /\ files[full_path(last.path)].content = NoteY
    /\ last.ret = << <<"y">> >>

\* C3: after a successful move_folder or delete_folder, the cache of the module
\* holds no entry whose key is the folder's path or lies under it.
C3_NoEntryInsideFolder ==
    (last.op \in {"move_folder", "delete_folder"} /\ last.ret)
        => \A key \in DOMAIN tag_cache[last.m] : ~inside(key, full_path(last.path))

\* C3 witness: a successful folder operation dropped the entry of a note inside
\* the folder.
C3_Witness ==
    /\ last.op \in {"move_folder", "delete_folder"}
    /\ last.ret
    /\ \E key \in last.dropped : inside(key, full_path(last.path))

\* The call of the step is a get_tags_cached call that finds, after a stat()
\* that succeeds, an entry whose mtime is the file's.
CacheHitStep ==
    /\ last'.op = "get_tags_cached"
    /\ last'.io # "stat_denied"
    /\ full_path(last'.path) \in DOMAIN files
    /\ full_path(last'.path) \in DOMAIN tag_cache[last'.m]
    /\ tag_cache[last'.m][full_path(last'.path)].mtime
           = files[full_path(last'.path)].mtime

\* C4: a get_tags_cached call that finds an entry with the file's current mtime
\* returns the entry's tags, does not open the file and leaves the cache as it
\* was.
C4_HitReturnsEntryUnread ==
    [][ CacheHitStep =>
            /\ last'.ret = tag_cache[last'.m][full_path(last'.path)].tags
            /\ ~last'.opened
            /\ tag_cache' = tag_cache ]_vars

\* C4 witness: a call returned tags without opening the file.
C4_Witness ==
    /\ GotTags
    /\ ~last.opened
    /\ last.ret # <<>>
    /\ full_path(last.path) \in DOMAIN tag_cache[last.m]

\* The latest get_tags_cached call failed at stat() or at reading the file.
StatOrReadFailed ==
    \/ full_path(last.path) \notin DOMAIN files
    \/ last.io = "stat_denied"
    \/ /\ last.opened
       /\ last.io = "open_denied" \/ ~files[full_path(last.path)].utf8

\* C5: a get_tags_cached call whose stat() or read fails returns the empty list
\* and raises nothing.
C5_FailureGivesEmptyList ==
    (GotTags /\ StatOrReadFailed) => (last.ret = <<>> /\ last.raised = "")

\* C5 witness: the read of a file with a stale entry failed.
C5_Witness ==
    /\ GotTags
    /\ last.opened
    /\ last.was_cached
    /\ full_path(last.path) \in DOMAIN files
    /\ last.io = "open_denied" \/ ~files[full_path(last.path)].utf8

\* C2: after a successful delete_note or move_note, no tag cache holds an entry
\* keyed by the deleted or the old path.
C2_NoEntryForRemovedNote ==
    (last.op \in {"delete_note", "move_note"} /\ last.ret)
        => \A m \in Modules : full_path(last.path) \notin DOMAIN tag_cache[m]

\* ------------------------------------------------------------------ plugins

None == <<>>
Some(v) == <<v>>

\* The number of plugin files in the plugins directory.
NPlugins == 2

\* The ids of the loaded plugins, in the order load_plugins registers them.
PluginIds == 1..NPlugins

\* An id no plugin file has.
UnknownId == NPlugins + 1

\* The hook methods a plugin class may define.
Hooks == {"on_note_save", "on_note_create", "on_note_delete"}

\* What a hook method does with the value it is given: return it upper-cased,
\* return it with "x" appended, return "", return None, or raise an Exception.
hook_returns(behaviour, value) ==
    CASE behaviour = "upper" -> [exc |-> "", ret |-> Some(upper(value))]
      [] behaviour = "suffix" -> [exc |-> "", ret |-> Some(value \o <<"x">>)]
      [] behaviour = "blank" -> [exc |-> "", ret |-> Some(<<>>)]
      [] behaviour = "none" -> [exc |-> "", ret |-> None]
      [] behaviour = "raise" -> [exc |-> "Exception", ret |-> None]

\* The plugin classes the plugin files define: what __init__ sets enabled to,
\* and the hook methods of the class with what they do.
ClsUpper ==
    [enabled |-> TRUE,
     hooks |-> [h \in {"on_note_save", "on_note_create"} |-> "upper"]]
ClsSuffix ==
    [enabled |-> TRUE,
     hooks |-> [h \in Hooks |-> IF h = "on_note_delete" THEN "none" ELSE "suffix"]]
ClsBase ==
    [enabled |-> FALSE,
     hooks |-> [h \in Hooks |-> IF h = "on_note_create" THEN "blank" ELSE "none"]]
ClsFaulty ==
    [enabled |-> TRUE,
     hooks |-> [h \in Hooks |-> "raise"]]

PluginClasses == {ClsUpper, ClsSuffix, ClsBase, ClsFaulty}

\* load_plugins(): one instance per plugin file, as its __init__ leaves it
load_plugins(plugin_files) ==
    [i \in DOMAIN plugin_files |->
        [id |-> i, class |-> plugin_files[i], enabled |-> plugin_files[i].enabled]]

\* _load_config(): the saved dict, {} when the file is missing or is no JSON
load_config(file) == IF file.kind = "json" THEN file.data ELSE <<>>

\* _apply_saved_state(): the saved flags of the loaded plugins override
apply_saved_state(loaded, saved_config) ==
    [i \in DOMAIN loaded |->
        IF loaded[i].id \in DOMAIN saved_config
        THEN [loaded[i] EXCEPT !.enabled = saved_config[loaded[i].id]]
        ELSE loaded[i]]

\* What writing plugin_config.json can come to: it is written, open() fails and
\* the file stays as it was, or json.dump fails and leaves a truncated file.
SaveOutcomes == {"ok", "open_failed", "write_failed"}

\* _save_config writing the enabled plugins only.
save_config_enabled_only(file, ps, outcome) ==
    CASE outcome = "ok" ->
             [kind |-> "json",
              data |-> [id \in {ps[i].id : i \in {j \in DOMAIN ps : ps[j].enabled}} |-> TRUE]]
      [] outcome = "open_failed" -> file
      [] outcome = "write_failed" -> [kind |-> "corrupt"]

\* _save_config(): the file afterwards; a failure is printed, not raised
save_config(file, ps, outcome) ==
    CASE outcome = "ok" ->
             [kind |-> "json",
              data |-> [id \in {ps[i].id : i \in DOMAIN ps} |->
                           ps[CHOOSE i \in DOMAIN ps : ps[i].id = id].enabled]]
      [] outcome = "open_failed" -> file
      [] outcome = "write_failed" -> [kind |-> "corrupt"]

\* PluginManager.__init__: the plugins and the config file it leaves
construct(plugin_files, file, outcome) ==
    LET ps == apply_saved_state(load_plugins(plugin_files), load_config(file))
    IN  [plugins |-> ps,
         config_file |-> IF ps # <<>> THEN save_config(file, ps, outcome) ELSE file]

\* enable_plugin / disable_plugin: the flag set, when the id is loaded
set_enabled(ps, plugin_id, flag) ==
    [i \in DOMAIN ps |->
        IF ps[i].id = plugin_id THEN [ps[i] EXCEPT !.enabled = flag] ELSE ps[i]]

is_loaded(ps, plugin_id) == \E i \in DOMAIN ps : ps[i].id = plugin_id

\* enable_plugin(plugin_id)
EnablePlugin ==
    \E plugin_id \in PluginIds \cup {UnknownId}, outcome \in SaveOutcomes :
        /\ IF is_loaded(plugins, plugin_id)
           THEN /\ plugins' = set_enabled(plugins, plugin_id, TRUE)
                /\ config_file' = save_config(config_file, plugins', outcome)
           ELSE UNCHANGED <<plugins, config_file>>
        /\ last' = [op |-> "enable_plugin", id |-> plugin_id,
                    saved |-> is_loaded(plugins, plugin_id) /\ outcome = "ok"]
        /\ UNCHANGED not_plugin_vars

\* disable_plugin(plugin_id)
DisablePlugin ==
    \E plugin_id \in PluginIds \cup {UnknownId}, outcome \in SaveOutcomes :
        /\ IF is_loaded(plugins, plugin_id)
           THEN /\ plugins' = set_enabled(plugins, plugin_id, FALSE)
                /\ config_file' = save_config(config_file, plugins', outcome)
           ELSE UNCHANGED <<plugins, config_file>>
        /\ last' = [op |-> "disable_plugin", id |-> plugin_id,
                    saved |-> is_loaded(plugins, plugin_id) /\ outcome = "ok"]
        /\ UNCHANGED not_plugin_vars

\* The process ends and a new one constructs PluginManager over the same
\* plugin files.
Restart ==
    \E outcome \in SaveOutcomes :
        LET made == construct([i \in DOMAIN plugins |-> plugins[i].class],
                              config_file, outcome)
        IN  /\ plugins' = made.plugins
            /\ config_file' = made.config_file
            /\ last' = [op |-> "construct"]
            /\ UNCHANGED not_plugin_vars

\* takes_part without the test of the enabled flag.
takes_part_disabled_too(plugin, hook_name) ==
    hook_name \in DOMAIN plugin.class.hooks

\* plugin.enabled and hasattr(plugin, hook_name)
takes_part(plugin, hook_name) ==
    plugin.enabled /\ hook_name \in DOMAIN plugin.class.hooks

\* A try block without a handler.
NothingCaught == {}

\* What "except Exception" around a hook method catches.
HookCaught == {"Exception"}

\* next_result testing the truth of the returned value, not "is not None".
next_result_if_truthy(has_content, result, out) ==
    IF has_content /\ out.exc = "" /\ out.ret # None /\ out.ret # Some(<<>>)
    THEN out.ret
    ELSE result

\* next_result without the test of "content" in kwargs.
next_result_without_content_test(has_content, result, out) ==
    IF out.exc = "" /\ out.ret # None THEN out.ret ELSE result

\* run_hook's running value after one method: what the method returned when it
\* returned and that is not None, the value before otherwise.
next_result(has_content, result, out) ==
    IF has_content /\ out.exc = "" /\ out.ret # None THEN out.ret ELSE result

\* The loop of run_hook from the i-th plugin on: result is the running value
\* (None without a content argument), calls lists the methods invoked so far
\* with the content each was given.
RECURSIVE run_hook_loop(_, _, _, _, _, _)
run_hook_loop(ps, i, hook_name, has_content, result, calls) ==
    IF i > Len(ps)
    THEN [ret |-> IF has_content THEN result ELSE None, calls |-> calls,
          raised |-> FALSE]
    ELSE IF ~takes_part(ps[i], hook_name)
    THEN run_hook_loop(ps, i + 1, hook_name, has_content, result, calls)
    ELSE LET out == hook_returns(ps[i].class.hooks[hook_name],
                                 IF has_content THEN result[1] ELSE <<>>)
             called == Append(calls, [id |-> ps[i].id, arg |-> result])
         IN  IF out.exc # "" /\ out.exc \notin HookCaught
             THEN [ret |-> None, calls |-> called, raised |-> TRUE]
             ELSE run_hook_loop(ps, i + 1, hook_name, has_content,
                                next_result(has_content, result, out), called)

\* run_hook(hook_name, **kwargs): content is None when kwargs has no "content"
run_hook(ps, hook_name, content) ==
    run_hook_loop(ps, 1, hook_name, content # None, content, <<>>)

\* next_value testing the truth of the returned value, not "is not None".
next_value_if_truthy(value, out) ==
    IF out.exc = "" /\ out.ret # None /\ out.ret # Some(<<>>) THEN out.ret ELSE value

\* kwargs["initial_content"] after one method of run_hook_with_return
next_value(value, out) ==
    IF out.exc = "" /\ out.ret # None THEN out.ret ELSE value

\* The loop of run_hook_with_return from the i-th plugin on; value is
\* kwargs["initial_content"].
RECURSIVE run_hook_with_return_loop(_, _, _, _, _)
run_hook_with_return_loop(ps, i, hook_name, value, calls) ==
    IF i > Len(ps)
    THEN [ret |-> value, calls |-> calls, raised |-> FALSE]
    ELSE IF ~takes_part(ps[i], hook_name)
    THEN run_hook_with_return_loop(ps, i + 1, hook_name, value, calls)
    ELSE LET out == hook_returns(ps[i].class.hooks[hook_name], value[1])
             called == Append(calls, [id |-> ps[i].id, arg |-> value])
         IN  IF out.exc # "" /\ out.exc \notin HookCaught
             THEN [ret |-> None, calls |-> called, raised |-> TRUE]
             ELSE run_hook_with_return_loop(ps, i + 1, hook_name,
                                            next_value(value, out), called)

\* run_hook_with_return(hook_name, initial_content=..., **kwargs)
run_hook_with_return(ps, hook_name, initial_content) ==
    run_hook_with_return_loop(ps, 1, hook_name, Some(initial_content), <<>>)

\* The texts handed to the hooks.
HookTexts == { <<"h", "i">>, <<>> }

\* run_hook(hook_name, note_path=..., content=...) or, content being None,
\* run_hook(hook_name, note_path=...)
RunHook ==
    \E hook_name \in Hooks, content \in {None} \cup {Some(t) : t \in HookTexts} :
        LET r == run_hook(plugins, hook_name, content)
        IN  /\ last' = [op |-> "run_hook", hook |-> hook_name, content |-> content,
                        ret |-> r.ret, calls |-> r.calls, raised |-> r.raised]
            /\ UNCHANGED <<plugins, config_file, not_plugin_vars>>

\* run_hook_with_return(hook_name, note_path=..., initial_content=...)
RunHookWithReturn ==
    \E hook_name \in Hooks, initial_content \in HookTexts :
        LET r == run_hook_with_return(plugins, hook_name, initial_content)
        IN  /\ last' = [op |-> "run_hook_with_return", hook |-> hook_name,
                        content |-> Some(initial_content),
                        ret |-> r.ret, calls |-> r.calls, raised |-> r.raised]
            /\ UNCHANGED <<plugins, config_file, not_plugin_vars>>

\* The config files a first start may find.
FirstConfigFiles ==
    { [kind |-> "missing"],
      [kind |-> "corrupt"],
      [kind |-> "json", data |-> (1 :> FALSE)],
      [kind |-> "json", data |-> (1 :> TRUE) @@ (UnknownId :> TRUE)] }

\* PluginManager constructed over NPlugins plugin files; no notes yet.
InitPlugins ==
    /\ files = <<>>
    /\ dirs = {NotesDir}
    /\ clock = 0
    /\ mtime_history = "fresh"
    /\ tag_cache = [m \in Modules |-> <<>>]
    /\ \E plugin_files \in [PluginIds -> PluginClasses], file \in FirstConfigFiles :
           LET made == construct(plugin_files, file, "ok")
           IN  /\ plugins = made.plugins
               /\ config_file = made.config_file
    /\ last = [op |-> "start"]

NextPlugins ==
    \/ EnablePlugin
    \/ DisablePlugin
    \/ Restart
    \/ RunHook
    \/ RunHookWithReturn

SpecPlugins == InitPlugins /\ [][NextPlugins]_vars

\* ---------------------------------------------------------------------------
\* Claims: the plugin manager
\* ---------------------------------------------------------------------------

\* The loaded plugins that are enabled and define the hook, in registration order.
Participants(hook_name) ==
    SelectSeq(plugins, LAMBDA p : p.enabled /\ hook_name \in DOMAIN p.class.hooks)

\* The running value after the k-th invoked method of the latest hook run: what
\* the next method was given, or what the run returned after the last one.
ValueAfter(k) ==
    IF k < Len(last.calls) THEN last.calls[k + 1].arg ELSE last.ret

\* What the k-th invoked method of the latest hook run did with what it got.
Outcome(k) ==
    hook_returns(Participants(last.hook)[k].class.hooks[last.hook],
                 IF last.calls[k].arg = None THEN <<>> ELSE last.calls[k].arg[1])

\* C6: run_hook with a content invokes exactly the enabled plugins that define
\* the hook, in registration order; the first is given the caller's content, each
\* later one the value so far; a returned value that is not None becomes the
\* value so far, None leaves it; the call returns the value after the last one.
C6_ChainInRegistrationOrder ==
    (last.op = "run_hook" /\ last.content # None) =>
        /\ Len(last.calls) = Len(Participants(last.hook))
        /\ \A k \in DOMAIN last.calls :
               last.calls[k].id = Participants(last.hook)[k].id
        /\ ValueAfter(0) = last.content
        /\ \A k \in DOMAIN last.calls :
               Outcome(k).exc = "" =>
                   ValueAfter(k) = IF Outcome(k).ret # None
                                   THEN Outcome(k).ret
                                   ELSE last.calls[k].arg

\* Two plugins ran in a chain: the first upper-cased "hi", the second appended.
C6_Witness ==
    /\ last.op = "run_hook"
    /\ last.content = Some(<<"h", "i">>)
    /\ Len(last.calls) = 2
    /\ last.calls[2].arg = Some(<<"H", "I">>)
    /\ last.ret = Some(<<"H", "I", "x">>)

\* C7: when a hook method raises during run_hook, nothing is raised to the
\* caller, the running value stays what it was, and every later enabled plugin
\* that defines the hook is still invoked.
C7_RaisingHookIsSkipped ==
    last.op = "run_hook" =>
        \A k \in DOMAIN last.calls :
            (k <= Len(Participants(last.hook)) /\ Outcome(k).exc # "") =>
                /\ ~last.raised
                /\ ValueAfter(k) = last.calls[k].arg
                /\ Len(last.calls) = Len(Participants(last.hook))

\* The first plugin raised, the second still upper-cased the caller's "hi".
C7_Witness ==
    /\ last.op = "run_hook"
    /\ Len(last.calls) = 2
    /\ Outcome(1).exc # ""
    /\ last.calls[2].arg = Some(<<"h", "i">>)
    /\ last.ret = Some(<<"H", "I">>)
    /\ ~last.raised

\* A hook run invoked a plugin exactly when it is enabled and defines the hook.
InvokedIffEnabled ==
    last.op \in {"run_hook", "run_hook_with_return"} =>
        \A i \in DOMAIN plugins :
            (\E k \in DOMAIN last.calls : last.calls[k].id = plugins[i].id)
                <=> (plugins[i].enabled /\ last.hook \in DOMAIN plugins[i].class.hooks)

\* Within one PluginManager a flag changes only in enable_plugin or
\* disable_plugin naming the plugin, to True and to False.
FlagSetOnlyByToggle ==
    \A i \in DOMAIN plugins :
        /\ plugins'[i].enabled # plugins[i].enabled =>
               \/ last'.op = "construct"
               \/ last'.op \in {"enable_plugin", "disable_plugin"}
                      /\ last'.id = plugins[i].id
        /\ (last'.op = "enable_plugin" /\ last'.id = plugins[i].id) =>
               plugins'[i].enabled
        /\ (last'.op = "disable_plugin" /\ last'.id = plugins[i].id) =>
               ~plugins'[i].enabled

\* C8: a hook run invokes a plugin only if its enabled flag is true then: from
\* disable_plugin(P) until enable_plugin(P) no hook run of the manager invokes
\* P, and from enable_plugin(P) until disable_plugin(P) every hook run of a
\* hook P defines invokes it.
C8_EnabledFlagGatesHooks ==
    [](InvokedIffEnabled) /\ [][FlagSetOnlyByToggle]_vars

\* A hook run left out a plugin that defines the hook and whose class starts
\* enabled, and invoked another.
C8_Witness ==
    /\ last.op = "run_hook"
    /\ Len(last.calls) = 1
    /\ \E i \in DOMAIN plugins :
           /\ plugins[i].class.enabled
           /\ ~plugins[i].enabled
           /\ last.hook \in DOMAIN plugins[i].class.hooks
           /\ last.calls[1].id # plugins[i].id

\* The plugins a PluginManager constructed now over the same plugin files
\* would start with.
Reconstructed ==
    apply_saved_state(load_plugins([i \in DOMAIN plugins |-> plugins[i].class]),
                      load_config(config_file))

LastIsToggle == last.op \in {"enable_plugin", "disable_plugin"}

\* After a call naming a loaded plugin its flag is what the call set.
FlagIsWhatWasSet ==
    LastIsToggle =>
        \A i \in DOMAIN plugins :
            plugins[i].id = last.id => plugins[i].enabled = (last.op = "enable_plugin")

\* A call changes no other plugin's flag, and a call naming an id that is not
\* loaded changes neither the flags nor the config file.
ToggleChangesNothingElse ==
    last'.op \in {"enable_plugin", "disable_plugin"} =>
        /\ \A i \in DOMAIN plugins :
               plugins[i].id # last'.id => plugins'[i] = plugins[i]
        /\ ~is_loaded(plugins, last'.id) =>
               (plugins' = plugins /\ config_file' = config_file)

\* C9 as stated: after every enable_plugin or disable_plugin call each plugin's
\* flag is what the latest call naming it set, plugin_config.json records the
\* same flags, so that a manager constructed afterwards starts with them, and a
\* call naming an unknown id changes neither.
C9_ConfigAlwaysRecordsFlags ==
    /\ [](FlagIsWhatWasSet)
    /\ []((LastIsToggle /\ is_loaded(plugins, last.id)) => Reconstructed = plugins)
    /\ [][ToggleChangesNothingElse]_vars

\* C9, amended: the same, the config file recording the flags whenever the
\* write of plugin_config.json in the call succeeded.
C9_ConfigRecordsFlagsWhenWritten ==
    /\ [](FlagIsWhatWasSet)
    /\ []((LastIsToggle /\ last.saved) => Reconstructed = plugins)
    /\ [][ToggleChangesNothingElse]_vars

\* disable_plugin turned off a plugin whose class starts enabled and wrote the
\* config file, which now records it.
C9_Witness ==
    /\ last.op = "disable_plugin"
    /\ last.saved
    /\ config_file.kind = "json"
    /\ \E i \in DOMAIN plugins :
           /\ plugins[i].id = last.id
           /\ plugins[i].class.enabled
           /\ ~plugins[i].enabled
           /\ config_file.data[last.id] = FALSE
    /\ Reconstructed = plugins

\* C10: run_hook_with_return with initial_content v invokes the same plugins
\* with the same values, and returns the same value, as run_hook of that hook
\* with content v.
C10_WithReturnMatchesRunHook ==
    last.op = "run_hook_with_return" =>
        /\ last.ret = run_hook(plugins, last.hook, last.content).ret
        /\ last.calls = run_hook(plugins, last.hook, last.content).calls

\* run_hook_with_return ran two plugins and returned another text than given.
C10_Witness ==
    /\ last.op = "run_hook_with_return"
    /\ Len(last.calls) = 2
    /\ last.calls[2].arg # last.content
    /\ last.ret # last.calls[2].arg

\* C11: run_hook without a content argument invokes each enabled plugin that
\* defines the hook once, in registration order, hands none of them anything a
\* plugin returned, and returns None.
C11_VoidHookReturnsNone ==
    (last.op = "run_hook" /\ last.content = None) =>
        /\ last.ret = None
        /\ Len(last.calls) = Len(Participants(last.hook))
        /\ \A k \in DOMAIN last.calls :
               /\ last.calls[k].id = Participants(last.hook)[k].id
               /\ last.calls[k].arg = None

\* A run without content invoked two plugins, the first of which returned a
\* value.
C11_Witness ==
    /\ last.op = "run_hook"
    /\ last.content = None
    /\ Len(last.calls) = 2
    /\ Outcome(1).exc = ""
    /\ Outcome(1).ret # None
    /\ last.ret = None

\* ---------------------------------------------------------------------------
\* The request that creates or updates a note
\* ---------------------------------------------------------------------------

\* The file save_note writes for a note path: ".md" is appended when missing.
saved_as(note_path) ==
    IF endswith(note_path, MdSuffix) THEN note_path ELSE note_path \o MdSuffix

\* get_note_content(notes_dir, note_path): None when there is no such file or
\* the path leaves the notes directory; reading bytes that are no UTF-8 raises.
get_note_content(note_path) ==
    IF full_path(note_path) \notin DOMAIN files \/ ~validate_path_security(note_path)
    THEN [exc |-> "", ret |-> None]
    ELSE IF ~files[full_path(note_path)].utf8
    THEN [exc |-> "UnicodeDecodeError", ret |-> None]
    ELSE [exc |-> "", ret |-> Some(files[full_path(note_path)].content)]

\* The note paths and texts a request may carry.
RequestPaths == NotePaths \cup { <<"a", "/", "x">>, EscapePath }

\* POST /api/notes/{note_path} with {"content": content}: what the handler does,
\* in order, is kept in last.events.
CreateOrUpdateNote ==
    \E note_path \in RequestPaths, content \in HookTexts :
        LET existing == get_note_content(note_path)
            is_new_note == existing.ret = None
            created == run_hook_with_return(plugins, "on_note_create", content)
            note_content == IF is_new_note THEN created.ret ELSE Some(content)
            transformed == run_hook(plugins, "on_note_save", note_content)
            transformed_content ==
                IF transformed.ret = None THEN note_content ELSE transformed.ret
            key == full_path(saved_as(note_path))
            success == validate_path_security(saved_as(note_path))
            hooks_run ==
                (IF is_new_note
                 THEN << [ev |-> "on_note_create", given |-> Some(content),
                          ret |-> created.ret] >>
                 ELSE <<>>)
                \o << [ev |-> "on_note_save", given |-> note_content,
                       ret |-> transformed.ret] >>
            call == [op |-> "create_or_update_note", path |-> note_path,
                     content |-> content,
                     existed |-> key \in DOMAIN files]
        IN  IF existing.exc # ""
            THEN /\ last' = call @@ [status |-> 500, events |-> <<>>]
                 /\ UNCHANGED <<cache_vars, plugin_vars>>
            ELSE IF ~success
            THEN /\ last' = call @@ [status |-> 500, events |-> hooks_run]
                 /\ UNCHANGED <<cache_vars, plugin_vars>>
            ELSE /\ clock < MaxClock
                 /\ clock' = clock + 1
                 /\ dirs' = mkdir_parents(dirs, parent(key))
                 /\ files' = with(files, key, [mtime |-> clock + 1,
                                               content |-> transformed_content[1],
                                               utf8 |-> TRUE])
                 /\ last' = call @@
                        [status |-> 200,
                         events |-> hooks_run \o
                             << [ev |-> "write", given |-> transformed_content,
                                 ret |-> None] >>]
                 /\ UNCHANGED <<mtime_history, tag_cache, plugin_vars>>

\* Another process rewrites an existing note with bytes that are no UTF-8 text.
ExternalCorrupt ==
    \E rel \in NotePaths :
        /\ full_path(rel) \in DOMAIN files
        /\ files[full_path(rel)].utf8
        /\ clock < MaxClock
        /\ clock' = clock + 1
        /\ files' = [files EXCEPT ![full_path(rel)] =
                        [mtime |-> clock + 1, content |-> <<>>, utf8 |-> FALSE]]
        /\ last' = [op |-> "external_write", path |-> rel]
        /\ UNCHANGED <<dirs, mtime_history, tag_cache, plugin_vars>>

\* The notes requests of a process, with the plugins its manager started with.
NextNotes ==
    \/ CreateOrUpdateNote
    \/ ExternalCorrupt

SpecNotes == InitPlugins /\ [][NextNotes]_vars

\* The events of the latest request with the given name, in order.
EventsNamed(ev) == SelectSeq(last.events, LAMBDA e : e.ev = ev)

\* C12: in a create_or_update_note request the on_note_create chain runs only
\* when the note did not exist before, and then first, on the request's content;
\* the on_note_save chain is given its result (the request's content when it
\* did not run); the write comes last and writes what the on_note_save chain
\* returned.
C12_CreateThenSaveThenWrite ==
    last.op = "create_or_update_note" =>
        /\ EventsNamed("on_note_create") # <<>> => ~last.existed
        /\ last.status = 200 =>
               /\ Len(EventsNamed("on_note_save")) = 1
               /\ Len(EventsNamed("write")) = 1
               /\ last.events[Len(last.events)].ev = "write"
               /\ last.events[Len(last.events) - 1].ev = "on_note_save"
               /\ last.events[Len(last.events)].given
                      = last.events[Len(last.events) - 1].ret
               /\ last.events[Len(last.events) - 1].given
                      = IF EventsNamed("on_note_create") # <<>>
                        THEN last.events[1].ret
                        ELSE Some(last.content)
               /\ ~last.existed =>
                      /\ last.events[1].ev = "on_note_create"
                      /\ last.events[1].given = Some(last.content)
                      /\ Len(last.events) = 3

\* ---------------------------------------------------------------------------
\* Links in a note's text
\* ---------------------------------------------------------------------------

\* The text from position i on.
from(s, i) == SubSeq(s, i, Len(s))

\* The longest run of characters outside the set stop, from position i on.
RECURSIVE run_outside(_, _, _)
run_outside(s, i, stop) ==
    IF i > Len(s) \/ s[i] \in stop THEN <<>>
    ELSE << s[i] >> \o run_outside(s, i + 1, stop)

\* A match of \[\[([^\]|]+)(?:\|[^\]]+)?\]\] that starts at position i: whether
\* there is one, its group and the position after it.
wikilink_at(s, i) ==
    LET target == run_outside(s, i + 2, {"]", "|"})
        p == i + 2 + Len(target)
        display == run_outside(s, p + 1, {"]"})
        q == IF p <= Len(s) /\ s[p] = "|" THEN p + 1 + Len(display) ELSE p
    IN  IF /\ startswith(from(s, i), <<"[", "[">>)
           /\ target # <<>>
           /\ (p <= Len(s) /\ s[p] = "|") => display # <<>>
           /\ startswith(from(s, q), <<"]", "]">>)
        THEN [ok |-> TRUE, group |-> target, next |-> q + 2]
        ELSE [ok |-> FALSE, group |-> <<>>, next |-> i + 1]

\* What the negative lookahead of the markdown link pattern refuses.
ExternalPrefixes ==
    { <<"h", "t", "t", "p", ":", "/", "/">>,
      <<"h", "t", "t", "p", "s", ":", "/", "/">>,
      <<"m", "a", "i", "l", "t", "o", ":">>,
      <<"#">>,
      <<"d", "a", "t", "a", ":">> }

\* A match of \[([^\]]+)\]\((?!https?://|mailto:|#|data:)([^\)]+)\) that starts
\* at position i: whether there is one, its second group and the position
\* after it.
markdown_link_at(s, i) ==
    LET text == run_outside(s, i + 1, {"]"})
        p == i + 1 + Len(text)
        path == run_outside(s, p + 2, {")"})
        q == p + 2 + Len(path)
    IN  IF /\ i <= Len(s) /\ s[i] = "["
           /\ text # <<>>
           /\ startswith(from(s, p), <<"]", "(">>)
           /\ \A prefix \in ExternalPrefixes : ~startswith(from(s, p + 2), prefix)
           /\ path # <<>>
           /\ q <= Len(s) /\ s[q] = ")"
        THEN [ok |-> TRUE, group |-> path, next |-> q + 1]
        ELSE [ok |-> FALSE, group |-> <<>>, next |-> i + 1]

\* re.findall(wikilink pattern, content) from position i on
RECURSIVE find_wikilinks(_, _)
find_wikilinks(s, i) ==
    IF i > Len(s) THEN <<>>
    ELSE LET m == wikilink_at(s, i)
         IN  (IF m.ok THEN << m.group >> ELSE <<>>) \o find_wikilinks(s, m.next)

\* re.findall(markdown link pattern, content) from position i on: the paths
RECURSIVE find_markdown_links(_, _)
find_markdown_links(s, i) ==
    IF i > Len(s) THEN <<>>
    ELSE LET m == markdown_link_at(s, i)
         IN  (IF m.ok THEN << m.group >> ELSE <<>>) \o find_markdown_links(s, m.next)

\* urllib.parse.unquote(s) for texts whose only escape is %20
RECURSIVE unquote(_)
unquote(s) ==
    IF s = <<>> THEN <<>>
    ELSE IF startswith(s, <<"%", "2", "0">>) THEN << " " >> \o unquote(from(s, 4))
    ELSE << Head(s) >> \o unquote(Tail(s))

\* str.replace(old, "") : every occurrence of old is removed, left to right
RECURSIVE remove_all(_, _)
remove_all(s, old) ==
    IF s = <<>> THEN <<>>
    ELSE IF startswith(s, old) THEN remove_all(from(s, Len(old) + 1), old)
    ELSE << Head(s) >> \o remove_all(Tail(s), old)

\* ---------------------------------------------------------------------------
\* The note graph
\* ---------------------------------------------------------------------------

\* md_file.relative_to(notes_path).as_posix()
relative_to(key) == from(key, Len(NotesDir) + 2)

\* The last component of a path.
basename(path) == split(path, "/")[Len(split(path, "/"))]

\* Path.stem of a file whose name ends in ".md"
stem(path) == SubSeq(basename(path), 1, Len(basename(path)) - Len(MdSuffix))

\* The files notes_path.rglob("*.md") yields.
md_files == {key \in DOMAIN files : endswith(key, MdSuffix)}

\* The tag cache after get_tags_cached ran on each of the given files.
RECURSIVE cache_after(_, _)
cache_after(cache, keys) ==
    IF keys = {} THEN cache
    ELSE LET key == CHOOSE k \in keys : TRUE
         IN  cache_after(get_tags_cached(cache, key, "ok").cache, keys \ {key})

\* sorted(items, key=modified, reverse=True) on files whose mtimes differ
RECURSIVE newest_first(_)
newest_first(keys) ==
    IF keys = {} THEN <<>>
    ELSE LET key == CHOOSE k \in keys : \A j \in keys : files[j].mtime <= files[k].mtime
         IN  << key >> \o newest_first(keys \ {key})

\* get_all_notes(notes_dir) in a directory without images: the items, newest
\* first; the tags come from (and fill) the given cache.
get_all_notes(cache) ==
    LET keys == newest_first(md_files)
    IN  [i \in 1..Len(keys) |->
            [name |-> stem(keys[i]),
             path |-> relative_to(keys[i]),
             type |-> "note",
             tags |-> get_tags_cached(cache, keys[i], "ok").ret]]

\* get_all_folders(notes_dir): the folders under the notes root, empty ones
\* included, hidden ones left out, sorted
get_all_folders ==
    sorted({relative_to(dir) : dir \in {d \in dirs \ {NotesDir} : relative_to(d)[1] # "."}})

\* note_paths of get_graph: every note's path, and its path without ".md"
note_paths(notes) ==
    UNION {{notes[i].path, remove_all(notes[i].path, MdSuffix)} : i \in DOMAIN notes}

\* note_paths_lower of get_graph: a later note overwrites an earlier one's key
RECURSIVE note_paths_lower(_)
note_paths_lower(notes) ==
    IF notes = <<>> THEN <<>>
    ELSE LET note == notes[Len(notes)]
             earlier == note_paths_lower(SubSeq(notes, 1, Len(notes) - 1))
         IN  with(with(earlier, lower(note.path), note.path),
                  lower(remove_all(note.path, MdSuffix)), note.path)

\* A name map in which the first note of a name keeps its key.
RECURSIVE note_names_first_wins(_)
note_names_first_wins(notes) ==
    IF notes = <<>> THEN <<>>
    ELSE LET note == notes[1]
             later == note_names_first_wins(Tail(notes))
         IN  with(with(later, lower(remove_all(note.name, MdSuffix)), note.path),
                  lower(note.name), note.path)

\* note_names of get_graph: a later note overwrites an earlier one's key
RECURSIVE note_names(_)
note_names(notes) ==
    IF notes = <<>> THEN <<>>
    ELSE LET note == notes[Len(notes)]
             earlier == note_names(SubSeq(notes, 1, Len(notes) - 1))
         IN  with(with(earlier, lower(remove_all(note.name, MdSuffix)), note.path),
                  lower(note.name), note.path)

\* What get_graph does with one wikilink target: the note it stands for, if
\* any, and the number of the step that found it.
resolve_wikilink(target_raw, notes) ==
    LET target == strip(target_raw)
        target_lower == lower(target)
        paths == note_paths(notes)
        paths_lower == note_paths_lower(notes)
        names == note_names(notes)
    IN  IF target \in paths
        THEN [step |-> 1,
              path |-> Some(IF endswith(target, MdSuffix) THEN target
                            ELSE target \o MdSuffix)]
        ELSE IF target \o MdSuffix \in paths
        THEN [step |-> 2, path |-> Some(target \o MdSuffix)]
        ELSE IF target_lower \in DOMAIN paths_lower
        THEN [step |-> 3, path |-> Some(paths_lower[target_lower])]
        ELSE IF target_lower \o MdSuffix \in DOMAIN paths_lower
        THEN [step |-> 3, path |-> Some(paths_lower[target_lower \o MdSuffix])]
        ELSE IF target_lower \in DOMAIN names
        THEN [step |-> 4, path |-> Some(names[target_lower])]
        ELSE [step |-> 0, path |-> None]

\* The path get_graph looks up for a markdown link: the anchor is cut off,
\* escapes are decoded and a leading "./" is dropped.
link_path_of(link_path_raw) ==
    IF startswith(unquote(split(link_path_raw, "#")[1]), <<".", "/">>)
    THEN from(unquote(split(link_path_raw, "#")[1]), 3)
    ELSE unquote(split(link_path_raw, "#")[1])

\* What get_graph does with the path of one markdown link.
resolve_markdown(link_path_raw, notes) ==
    LET before_anchor == split(link_path_raw, "#")[1]
        link_path == link_path_of(link_path_raw)
        link_path_with_md == IF endswith(link_path, MdSuffix) THEN link_path
                             ELSE link_path \o MdSuffix
        filename == basename(link_path)
        filename_with_md == IF endswith(filename, MdSuffix) THEN filename
                            ELSE filename \o MdSuffix
        paths == note_paths(notes)
        paths_lower == note_paths_lower(notes)
        names == note_names(notes)
    IN  IF link_path_raw = <<>> \/ startswith(link_path_raw, <<"#">>)
           \/ before_anchor = <<>>
        THEN [step |-> 0, path |-> None]
        ELSE IF link_path \in paths
        THEN [step |-> 1, path |-> Some(link_path_with_md)]
        ELSE IF link_path_with_md \in paths
        THEN [step |-> 1, path |-> Some(link_path_with_md)]
        ELSE IF lower(link_path) \in DOMAIN paths_lower
        THEN [step |-> 2, path |-> Some(paths_lower[lower(link_path)])]
        ELSE IF lower(link_path_with_md) \in DOMAIN paths_lower
        THEN [step |-> 2, path |-> Some(paths_lower[lower(link_path_with_md)])]
        ELSE IF lower(filename) \in DOMAIN names
        THEN [step |-> 3, path |-> Some(names[lower(filename)])]
        ELSE IF lower(filename_with_md) \in DOMAIN names
        THEN [step |-> 3, path |-> Some(names[lower(filename_with_md)])]
        ELSE [step |-> 0, path |-> None]

\* What get_graph keeps of one link: where it was found, and what it resolved
\* to.
link_of(note, type, raw, resolved) ==
    [source |-> note.path, type |-> type, raw |-> raw,
     path |-> resolved.path, step |-> resolved.step]

\* The links get_graph finds in one note's text, in the order it handles them:
\* all wikilinks, then all markdown links.
links_of(note, wikilinks, markdown_links, notes) ==
    [i \in 1..Len(wikilinks) |->
        link_of(note, "wikilink", wikilinks[i], resolve_wikilink(wikilinks[i], notes))]
    \o
    [i \in 1..Len(markdown_links) |->
        link_of(note, "markdown", markdown_links[i],
                resolve_markdown(markdown_links[i], notes))]

\* Whether get_graph appends an edge for a link.
edge_wanted(link) == link.path # None /\ link.path[1] # link.source

\* The edge get_graph appends for a link.
edge_of(link) == [source |-> link.source, target |-> link.path[1], type |-> link.type]

\* The edges get_graph appends for the links, in order.
RECURSIVE edges_of(_)
edges_of(links) ==
    IF links = <<>> THEN <<>>
    ELSE (IF edge_wanted(Head(links)) THEN << edge_of(Head(links)) >> ELSE <<>>)
         \o edges_of(Tail(links))

\* A loop that keeps every edge.
unique_edges_keeping_all(edges, seen) == edges

\* The loop that removes duplicate edges.
RECURSIVE unique_edges(_, _)
unique_edges(edges, seen) ==
    IF edges = <<>> THEN <<>>
    ELSE LET edge == Head(edges)
             key == << edge.source, edge.target >>
         IN  IF key \in seen
             THEN unique_edges(Tail(edges), seen)
             ELSE << edge >> \o unique_edges(Tail(edges), seen \cup {key})

\* The links of the notes from the i-th on; a note whose text is empty has
\* none.
RECURSIVE all_links(_, _)
all_links(notes, i) ==
    IF i > Len(notes) THEN <<>>
    ELSE (IF get_note_content(notes[i].path).ret \in {None, Some(<<>>)}
          THEN <<>>
          ELSE links_of(notes[i],
                        find_wikilinks(get_note_content(notes[i].path).ret[1], 1),
                        find_markdown_links(get_note_content(notes[i].path).ret[1], 1),
                        notes))
         \o all_links(notes, i + 1)

\* The node get_graph appends for a note.
node_of(note) == [id |-> note.path, label |-> remove_all(note.name, MdSuffix)]

\* What get_graph returns for the notes and the edges it appended.
graph_of(notes, links, edges) ==
    [status |-> 200,
     nodes |-> [i \in DOMAIN notes |-> node_of(notes[i])],
     edges |-> unique_edges(edges, {}),
     found |-> edges,
     links |-> links]

graph_with(notes, links) == graph_of(notes, links, edges_of(links))

\* get_graph once get_all_notes returned: reading a note may raise, and
\* handle_errors then answers 500.
graph_for(notes) ==
    IF \E i \in DOMAIN notes : get_note_content(notes[i].path).exc # ""
    THEN [status |-> 500, nodes |-> <<>>, edges |-> <<>>, found |-> <<>>,
          links |-> <<>>]
    ELSE graph_with(notes, all_links(notes, 1))

\* GET /api/graph
get_graph(cache) == graph_for(get_all_notes(cache))

\* The notes and the empty folder of the vault the graph is built for.
GraphPaths ==
    { <<"a", "/", "X">> \o MdSuffix,
      <<"b", "/", "x">> \o MdSuffix,
      <<"x">> \o MdSuffix \o MdSuffix }

GraphFolder == <<"a", "/", "d">>

\* The note texts of that vault: links by path, by name, in another case, with
\* a display text, an anchor or a "./", to a folder, to nothing, to the web.
GraphTexts ==
    { <<"[", "[", "a", "/", "X", "]", "]", "[", "[", "A", "/", "x", "]", "]",
        "[", "[", "z", "]", "]">>,
      <<"[", "[", "X", "]", "]", "[", "t", "]", "(", "b", "/", "x", ".", "m", "d", ")">>,
      <<"[", "t", "]", "(", ".", "/", "b", "/", "x", ".", "m", "d", "#", "s", ")",
        "[", "[", "b", "/", "x", "]", "]">>,
      <<"[", "[", "a", "]", "]", "[", "[", "D", "]", "]",
        "[", "t", "]", "(", "a", "/", "d", ")">>,
      <<"[", "[", "B", "|", "t", "]", "]", " ", "[", "[", "x", "]", "]",
        "[", "t", "]", "(", "h", "t", "t", "p", ":", "/", "/", "x", ")">> }

\* save_note writes a note of the vault that is not there yet.
SaveGraphNote ==
    \E rel \in GraphPaths, content \in GraphTexts :
        LET key == full_path(rel)
        IN  /\ key \notin DOMAIN files
            /\ clock' = clock + 1
            /\ dirs' = mkdir_parents(dirs, parent(key))
            /\ files' = with(files, key, [mtime |-> clock + 1, content |-> content,
                                          utf8 |-> TRUE])
            /\ last' = [op |-> "save_note", path |-> rel, ret |-> TRUE]
            /\ UNCHANGED <<mtime_history, tag_cache, not_cache_vars>>

\* Another process puts a file that is no UTF-8 text where the vault has no
\* note yet.
CopyInNote ==
    \E rel \in GraphPaths :
        LET key == full_path(rel)
        IN  /\ key \notin DOMAIN files
            /\ clock' = clock + 1
            /\ dirs' = mkdir_parents(dirs, parent(key))
            /\ files' = with(files, key, [mtime |-> clock + 1, content |-> <<>>,
                                          utf8 |-> FALSE])
            /\ last' = [op |-> "external_write", path |-> rel]
            /\ UNCHANGED <<mtime_history, tag_cache, not_cache_vars>>

\* GET /api/graph is served: get_all_notes fills the services' tag cache.
GetGraph ==
    /\ tag_cache' = [tag_cache EXCEPT
                        !["services"] = cache_after(tag_cache["services"], md_files)]
    /\ last' = [op |-> "get_graph"] @@ get_graph(tag_cache["services"])
    /\ UNCHANGED <<files, dirs, clock, mtime_history, not_cache_vars>>

\* A vault with an empty folder and no note yet.
InitGraph ==
    /\ files = <<>>
    /\ dirs = mkdir_parents({NotesDir}, full_path(GraphFolder))
    /\ clock = 0
    /\ mtime_history = "fresh"
    /\ tag_cache = [m \in Modules |-> <<>>]
    /\ plugins = <<>>
    /\ config_file = [kind |-> "missing"]
    /\ last = [op |-> "start"]

\* The vault is filled and its graph is asked for.
NextGraph ==
    \/ SaveGraphNote
    \/ CopyInNote
    \/ GetGraph

SpecGraph == InitGraph /\ [][NextGraph]_vars

\* ---------------------------------------------------------------------------
\* What the graph is to show
\* ---------------------------------------------------------------------------

\* folder_paths_lower of the folder-link tests: lower-case path |-> path
RECURSIVE folder_paths_lower(_)
folder_paths_lower(folders) ==
    IF folders = <<>> THEN <<>>
    ELSE with(folder_paths_lower(SubSeq(folders, 1, Len(folders) - 1)),
              lower(folders[Len(folders)]), folders[Len(folders)])

\* folder_names of the folder-link tests: lower-case last component |-> path
RECURSIVE folder_names(_)
folder_names(folders) ==
    IF folders = <<>> THEN <<>>
    ELSE with(folder_names(SubSeq(folders, 1, Len(folders) - 1)),
              lower(basename(folders[Len(folders)])), folders[Len(folders)])

\* The folder a link target stands for, as the folder-link tests resolve it: by
\* its exact path, by its path in any case, by its last component in any case.
resolve_folder(target, folders) ==
    IF target \in Range(folders) THEN Some(target)
    ELSE IF lower(target) \in DOMAIN folder_paths_lower(folders)
    THEN Some(folder_paths_lower(folders)[lower(target)])
    ELSE IF lower(target) \in DOMAIN folder_names(folders)
    THEN Some(folder_names(folders)[lower(target)])
    ELSE None

\* The first hit of the note strategies, then of the folder strategies.
first_match(note_match, folder_match) ==
    IF note_match # None THEN note_match ELSE folder_match

\* The answers of the latest request for the graph.
GraphBuilt == last.op = "get_graph" /\ last.status = 200

\* The notes the latest request for the graph listed.
GraphNotes == get_all_notes(tag_cache["services"])

\* C13: every wikilink target the graph build handles resolves to the first hit
\* in the order: exact note path (with or without .md), note path with .md
\* appended, note path in any case, note name in any case, then exact folder
\* path, folder path in any case, folder name in any case; a target that stands
\* for a note never resolves to a folder.
C13_FirstMatchingStrategy ==
    GraphBuilt =>
        \A i \in DOMAIN last.links :
            last.links[i].type = "wikilink" =>
                last.links[i].path =
                    first_match(resolve_wikilink(last.links[i].raw, GraphNotes).path,
                                resolve_folder(strip(last.links[i].raw),
                                               get_all_folders))

\* The target a handled link is looked up by.
target_of(link) ==
    IF link.type = "wikilink" THEN strip(link.raw) ELSE link_path_of(link.raw)

\* The type of an edge from a link of the given type to a folder.
folder_type(type) == IF type = "wikilink" THEN "wikilink-folder" ELSE "markdown-folder"

\* C14: a wikilink or markdown link whose target stands for no note but for a
\* folder (by exact path, path in any case, or name in any case) gives an edge
\* from the linking note to that folder's path, typed wikilink-folder or
\* markdown-folder.
C14_FolderLinkGivesFolderEdge ==
    GraphBuilt =>
        \A i \in DOMAIN last.links :
            (/\ last.links[i].path = None
             /\ resolve_folder(target_of(last.links[i]), get_all_folders) # None)
            => \E j \in DOMAIN last.edges :
                   /\ last.edges[j].source = last.links[i].source
                   /\ << last.edges[j].target >> =
                          resolve_folder(target_of(last.links[i]), get_all_folders)
                   /\ last.edges[j].type = folder_type(last.links[i].type)

\* A path without its ".md" extension.
without_md(path) ==
    IF endswith(path, MdSuffix) THEN SubSeq(path, 1, Len(path) - Len(MdSuffix))
    ELSE path

\* The target is the note's path, with or without ".md", or its name, in any
\* case.
names_note(target, note) ==
    lower(target) \in {lower(note.path), lower(without_md(note.path)), lower(note.name)}

\* C15: a wikilink target that is, in any case, the path (with or without .md)
\* or the name of a note resolves to the exact path of a note it so names.
C15_AnyCaseGivesCanonicalPath ==
    GraphBuilt =>
        \A i \in DOMAIN last.links :
            (/\ last.links[i].type = "wikilink"
             /\ \E k \in DOMAIN GraphNotes :
                    names_note(strip(last.links[i].raw), GraphNotes[k]))
            => \E k \in DOMAIN GraphNotes :
                   /\ names_note(strip(last.links[i].raw), GraphNotes[k])
                   /\ last.links[i].path = Some(GraphNotes[k].path)

\* The handled link gives the pair (source, target).
gives(link, source, target) ==
    link.source = source /\ link.path = Some(target) /\ target # source

\* C16: the edges of a graph hold no pair (source, target) twice and no edge
\* from a note to itself, and the edge kept for a pair has the type of the first
\* link that gave the pair, in the order the links were handled.
C16_EdgesUniqueNoLoopsFirstWins ==
    GraphBuilt =>
        /\ \A i, j \in DOMAIN last.edges :
               (/\ last.edges[i].source = last.edges[j].source
                /\ last.edges[i].target = last.edges[j].target) => i = j
        /\ \A i \in DOMAIN last.edges : last.edges[i].source # last.edges[i].target
        /\ \A i \in DOMAIN last.edges :
               \E k \in DOMAIN last.links :
                   /\ gives(last.links[k], last.edges[i].source, last.edges[i].target)
                   /\ last.links[k].type = last.edges[i].type
                   /\ \A h \in 1..(k - 1) :
                          ~gives(last.links[h], last.edges[i].source,
                                 last.edges[i].target)

\* A graph was built whose notes hold a link to themselves and two links of
\* different types to one other note.
C16_Witness ==
    /\ GraphBuilt
    /\ \E k \in DOMAIN last.links : last.links[k].path = Some(last.links[k].source)
    /\ \E h, k \in DOMAIN last.links :
           /\ h < k
           /\ last.links[h].type # last.links[k].type
           /\ \E i \in DOMAIN last.edges :
                  /\ gives(last.links[h], last.edges[i].source, last.edges[i].target)
                  /\ gives(last.links[k], last.edges[i].source, last.edges[i].target)

\* node.get("type") of a node of the answer
type_of(node) == IF "type" \in DOMAIN node THEN Some(node.type) ELSE None

\* The graph's nodes with the given id.
nodes_with(id) == {i \in DOMAIN last.nodes : last.nodes[i].id = id}

\* C17: a graph has exactly one node per note, of type note and labelled with
\* the file name without its extension, exactly one node per folder under the
\* notes root, empty ones included, of type folder and labelled with the
\* folder's name, and no other node.
C17_OneNodePerNoteAndFolder ==
    GraphBuilt =>
        /\ \A k \in DOMAIN GraphNotes :
               /\ Cardinality(nodes_with(GraphNotes[k].path)) = 1
               /\ \A i \in nodes_with(GraphNotes[k].path) :
                      /\ type_of(last.nodes[i]) = Some("note")
                      /\ last.nodes[i].label = without_md(basename(GraphNotes[k].path))
        /\ \A k \in DOMAIN get_all_folders :
               /\ Cardinality(nodes_with(get_all_folders[k])) = 1
               /\ \A i \in nodes_with(get_all_folders[k]) :
                      /\ type_of(last.nodes[i]) = Some("folder")
                      /\ last.nodes[i].label = basename(get_all_folders[k])
        /\ \A i \in DOMAIN last.nodes :
               \/ \E k \in DOMAIN GraphNotes : last.nodes[i].id = GraphNotes[k].path
               \/ \E k \in DOMAIN get_all_folders : last.nodes[i].id = get_all_folders[k]

\* C18: a note that cannot be read, or whose links stand for nothing, never
\* makes the graph build fail: the graph is built, that note has its node, empty
\* tags and no edge of its own, and every other note is still listed.
C18_BadNoteNeverFailsGraph ==
    last.op = "get_graph" =>
        /\ last.status = 200
        /\ \A k \in DOMAIN GraphNotes :
               /\ nodes_with(GraphNotes[k].path) # {}
               /\ ~files[full_path(GraphNotes[k].path)].utf8 =>
                      /\ GraphNotes[k].tags = <<>>
                      /\ \A i \in DOMAIN last.edges :
                             last.edges[i].source # GraphNotes[k].path

\* ---------------------------------------------------------------------------
\* The tag index
\* ---------------------------------------------------------------------------

\* A loop that notes a tag's presence instead of counting it.
count_tags_as_present(tag_counts, tags) ==
    [t \in DOMAIN tag_counts \cup Range(tags) |-> 1]

\* tag_counts after the loop over one note's tags.
RECURSIVE count_tags(_, _)
count_tags(tag_counts, tags) ==
    IF tags = <<>> THEN tag_counts
    ELSE count_tags(with(tag_counts, Head(tags),
                         (IF Head(tags) \in DOMAIN tag_counts
                          THEN tag_counts[Head(tags)] ELSE 0) + 1),
                    Tail(tags))

\* The loop of get_all_tags over the files still to visit.
RECURSIVE all_tags_loop(_, _, _)
all_tags_loop(cache, keys, tag_counts) ==
    IF keys = {} THEN tag_counts
    ELSE LET key == CHOOSE k \in keys : TRUE
         IN  all_tags_loop(cache, keys \ {key},
                           count_tags(tag_counts, get_tags_cached(cache, key, "ok").ret))

\* get_all_tags(notes_dir): tag |-> number of notes
get_all_tags(cache) == all_tags_loop(cache, md_files, <<>>)

\* What get_notes_by_tag appends for a file with the given tags.
matching_note(key, tags, tag_lower) ==
    IF tag_lower \in Range(tags)
    THEN << [name |-> stem(key), path |-> relative_to(key), tags |-> tags] >>
    ELSE <<>>

\* The loop of get_notes_by_tag over the files still to visit, in path order.
RECURSIVE notes_by_tag_loop(_, _, _)
notes_by_tag_loop(cache, keys, tag_lower) ==
    IF keys = <<>> THEN <<>>
    ELSE matching_note(Head(keys), get_tags_cached(cache, Head(keys), "ok").ret,
                       tag_lower)
         \o notes_by_tag_loop(cache, Tail(keys), tag_lower)

\* get_notes_by_tag(notes_dir, tag)
get_notes_by_tag(cache, tag) == notes_by_tag_loop(cache, sorted(md_files), lower(tag))

\* A note text with three tags, two of them the same in another case.
NoteXY == <<"-", "-", "-", "\n", "t", "a", "g", "s", ":", " ", "[", "x", ",", " ",
            "X", ",", " ", "y", "]", "\n", "-", "-", "-">>

TagTexts == NoteContents \cup {NoteXY}

\* The tags asked for.
TagQueries == { <<"x">>, <<"X">>, <<"y">>, <<"Y">>, <<"z">> }

\* save_note writes a tagged note.
SaveTaggedNote ==
    \E rel \in NotePaths, content \in TagTexts :
        LET key == full_path(rel)
        IN  /\ clock < MaxClock
            /\ clock' = clock + 1
            /\ dirs' = mkdir_parents(dirs, parent(key))
            /\ files' = with(files, key, [mtime |-> clock + 1, content |-> content,
                                          utf8 |-> TRUE])
            /\ last' = [op |-> "save_note", path |-> rel, ret |-> TRUE]
            /\ UNCHANGED <<mtime_history, tag_cache, not_cache_vars>>

\* get_all_tags(notes_dir) is called.
GetAllTags ==
    /\ tag_cache' = [tag_cache EXCEPT
                        !["services"] = cache_after(tag_cache["services"], md_files)]
    /\ last' = [op |-> "get_all_tags", ret |-> get_all_tags(tag_cache["services"])]
    /\ UNCHANGED <<files, dirs, clock, mtime_history, not_cache_vars>>

\* get_notes_by_tag(notes_dir, tag) is called.
GetNotesByTag ==
    \E tag \in TagQueries :
        /\ tag_cache' = [tag_cache EXCEPT
                            !["services"] = cache_after(tag_cache["services"], md_files)]
        /\ last' = [op |-> "get_notes_by_tag", tag |-> tag,
                    ret |-> get_notes_by_tag(tag_cache["services"], tag)]
        /\ UNCHANGED <<files, dirs, clock, mtime_history, not_cache_vars>>

\* Notes are written, by the server and by other processes, and the tag index
\* is asked for.
NextTags ==
    \/ SaveTaggedNote
    \/ ExternalWrite
    \/ GetAllTags
    \/ GetNotesByTag

SpecTags == Init /\ [][NextTags]_vars

\* The count the index gives a tag: none when the tag is no key.
count_of(tag_counts, tag) == IF tag \in DOMAIN tag_counts THEN tag_counts[tag] ELSE 0

\* The notes whose tags, as get_tags_cached gives them, hold the tag.
notes_tagged(tag) ==
    {key \in md_files :
        tag \in Range(get_tags_cached(tag_cache["services"], key, "ok").ret)}

\* C19: the count get_all_tags gives a tag is the number of notes whose tags
\* hold it and the number of notes get_notes_by_tag returns for the tag; the
\* notes get_notes_by_tag returns for a tag, written in lower or in upper case,
\* are the notes whose tags hold it, each once.
C19_CountsAgreeWithNotesByTag ==
    /\ last.op = "get_all_tags" =>
           \A tag \in TagQueries :
               /\ count_of(last.ret, lower(tag)) = Cardinality(notes_tagged(lower(tag)))
               /\ count_of(last.ret, lower(tag)) =
                      Len(get_notes_by_tag(tag_cache["services"], tag))
    /\ last.op = "get_notes_by_tag" =>
           /\ Len(last.ret) = Cardinality(notes_tagged(lower(last.tag)))
           /\ {full_path(last.ret[i].path) : i \in DOMAIN last.ret}
                  = notes_tagged(lower(last.tag))

\* get_all_tags counted a tag that two notes have, one of them twice in its
\* frontmatter, and a tag that one note has.
C19_Witness ==
    /\ last.op = "get_all_tags"
    /\ count_of(last.ret, <<"x">>) = 2
    /\ count_of(last.ret, <<"y">>) = 1
    /\ \E key \in md_files : files[key].content = NoteXY

\* ---------------------------------------------------------------------------
\* Tag normalization on its own
\* ---------------------------------------------------------------------------

\* The raw tag texts tried: every text of up to MaxRaw characters over a
\* letter, a capital, "#", a blank, a comma and a slash.
MaxRaw == 4

RawChars == {"a", "B", "#", " ", ",", "/"}

\* The texts of exactly n characters over RawChars.
RECURSIVE texts_of_length(_)
texts_of_length(n) ==
    IF n = 0 THEN { <<>> }
    ELSE {<< c >> \o t : c \in RawChars, t \in texts_of_length(n - 1)}

RawTexts == UNION {texts_of_length(n) : n \in 0..MaxRaw}

\* The raw tag lists tried: one or two short texts.
RawItems == UNION {texts_of_length(n) : n \in 0..(MaxRaw - 2)}

RawLists == {<< t >> : t \in RawItems} \cup {<< t, u >> : t \in RawItems, u \in RawItems}

\* _normalize_tags(raw), raw being a str or a list of str
normalize_tags(is_list, raw) ==
    IF is_list THEN normalize_tags_list(raw) ELSE normalize_tags_str(raw)

\* A raw text or a raw list is at hand; nothing else has happened.
InitNormalize ==
    /\ files = <<>>
    /\ dirs = {NotesDir}
    /\ clock = 0
    /\ mtime_history = "fresh"
    /\ tag_cache = [m \in Modules |-> <<>>]
    /\ plugins = <<>>
    /\ config_file = [kind |-> "missing"]
    /\ \/ \E raw \in RawTexts : last = [op |-> "start", is_list |-> FALSE, raw |-> raw]
       \/ \E raw \in RawLists : last = [op |-> "start", is_list |-> TRUE, raw |-> raw]

\* _normalize_tags is called on the raw text or the raw list.
NormalizeTags ==
    /\ last.op = "start"
    /\ last' = [op |-> "normalize_tags", is_list |-> last.is_list, again |-> FALSE,
                raw |-> last.raw, ret |-> normalize_tags(last.is_list, last.raw)]
    /\ UNCHANGED <<cache_vars, plugin_vars>>

\* _normalize_tags is called on the list its latest call returned.
NormalizeAgain ==
    /\ last.op = "normalize_tags"
    /\ ~last.again
    /\ last' = [op |-> "normalize_tags", is_list |-> TRUE, again |-> TRUE,
                raw |-> last.ret, ret |-> normalize_tags(TRUE, last.ret)]
    /\ UNCHANGED <<cache_vars, plugin_vars>>

NextNormalize ==
    \/ NormalizeTags
    \/ NormalizeAgain

SpecNormalize == InitNormalize /\ [][NextNormalize]_vars

\* C20: tag normalization is idempotent: normalizing the list a normalization
\* returned, of a raw text or of a raw list, returns that list.
C20_NormalizeIdempotent ==
    (last.op = "normalize_tags" /\ last.again) => last.ret = last.raw

\* ---------------------------------------------------------------------------
\* Tag parsing on its own
\* ---------------------------------------------------------------------------

\* The tags written in the frontmatter: plain, with a "#", in capitals, with
\* one or two slashes.
TagTokens ==
    { <<"a", "/", "b">>, <<"#", "B", "/", "x">>, <<"x">>, <<"a", "/", "/", "y">> }

TokenLists == {<< t >> : t \in TagTokens} \cup {<< t, u >> : t \in TagTokens, u \in TagTokens}

\* The three ways parse_tags reads tags.
TagForms == {"array", "scalar", "list"}

\* The texts joined by the separator.
RECURSIVE join(_, _)
join(texts, sep) ==
    IF texts = <<>> THEN <<>>
    ELSE IF Len(texts) = 1 THEN texts[1]
    ELSE texts[1] \o sep \o join(Tail(texts), sep)

TagsKey == <<"t", "a", "g", "s", ":">>

\* The frontmatter lines that give the tags in a form.
tag_lines(form, tokens) ==
    IF form = "array"
    THEN TagsKey \o <<" ", "[">> \o join(tokens, <<",", " ">>) \o <<"]", "\n">>
    ELSE IF form = "scalar"
    THEN TagsKey \o <<" ">> \o join(tokens, <<" ">>) \o <<"\n">>
    ELSE TagsKey \o <<"\n">>
         \o join([i \in DOMAIN tokens |-> <<" ", " ", "-", " ">> \o tokens[i] \o <<"\n">>],
                 <<>>)

\* What comes before the opening delimiter: nothing, an empty line, a text line.
Prefixes == { <<>>, <<"\n">>, <<"h", "i", "\n">> }

\* What comes after the tag lines: the closing delimiter or nothing, then the
\* body, which may hold a tags line and a delimiter of its own.
Closings == { Dashes \o <<"\n">>, <<>> }

Bodies == { <<"h", "i">>, TagsKey \o <<" ", "z", "\n">> \o Dashes }

\* A note text is at hand.
InitParse ==
    /\ files = <<>>
    /\ dirs = {NotesDir}
    /\ clock = 0
    /\ mtime_history = "fresh"
    /\ tag_cache = [m \in Modules |-> <<>>]
    /\ plugins = <<>>
    /\ config_file = [kind |-> "missing"]
    /\ \E form \in TagForms, tokens \in TokenLists, prefix \in Prefixes,
          closing \in Closings, body \in Bodies :
           last = [op |-> "start", form |-> form, tokens |-> tokens,
                   prefix |-> prefix, closing |-> closing,
                   content |-> prefix \o Dashes \o <<"\n">>
                               \o tag_lines(form, tokens) \o closing \o body]

\* parse_tags(content) is called on the text.
ParseTags ==
    /\ last.op = "start"
    /\ last' = [last EXCEPT !.op = "parse_tags"] @@ [ret |-> parse_tags(last.content)]
    /\ UNCHANGED <<cache_vars, plugin_vars>>

\* parse_tags(content) is called on the text again.
ParseTagsAgain ==
    /\ last.op = "parse_tags"
    /\ last' = [last EXCEPT !.op = "parse_tags_again", !.ret = parse_tags(last.content)]
    /\ UNCHANGED <<cache_vars, plugin_vars>>

NextParse ==
    \/ ParseTags
    \/ ParseTagsAgain

SpecParse == InitParse /\ [][NextParse]_vars

\* The tag a written token stands for.
tag_of(token) == lower(lstrip_char(token, "#"))

\* The non-empty segments of a tag.
segments(tag) == {strip(seg) : seg \in Range(split(tag, "/"))} \ { <<>> }

\* C21: every tag with a "/" brings itself and each of its non-empty segments
\* into the parsed tags, whether the tags are written as an inline array, an
\* inline scalar or a nested list, and the parsed tags are sorted and hold no
\* tag twice.
C21_HierarchicalTagsExpand ==
    last.op = "parse_tags" =>
        /\ \A i \in DOMAIN last.ret : segments(last.ret[i]) \subseteq Range(last.ret)
        /\ \A i, j \in DOMAIN last.ret : i < j => str_less(last.ret[i], last.ret[j])
        /\ (last.prefix = <<>> /\ last.closing # <<>>) =>
               \A k \in DOMAIN last.tokens :
                   {tag_of(last.tokens[k])} \cup segments(tag_of(last.tokens[k]))
                       \subseteq Range(last.ret)

\* A nested list with a tag of two segments and a tag with a "#", capitals and a
\* slash was parsed.
C21_Witness ==
    /\ last.op = "parse_tags"
    /\ last.form = "list"
    /\ last.prefix = <<>> /\ last.closing # <<>>
    /\ last.tokens = << <<"a", "/", "b">>, <<"#", "B", "/", "x">> >>
    /\ last.ret = << <<"a">>, <<"a", "/", "b">>, <<"b">>, <<"b", "/", "x">>, <<"x">> >>

\* The index of the first line at or after i that satisfies the test on its
\* stripped text, or 0.
RECURSIVE first_line(_, _, _)
first_line(lines, i, want_dashes) ==
    IF i > Len(lines) THEN 0
    ELSE IF want_dashes /\ strip(lines[i]) = Dashes THEN i
    ELSE IF ~want_dashes /\ strip(lines[i]) # <<>> THEN i
    ELSE first_line(lines, i + 1, want_dashes)

\* The tags between the first non-empty line, when it is the delimiter, and
\* the next delimiter line; none otherwise.
tags_of_first_block(content) ==
    LET lines == split(content, "\n")
        open == first_line(lines, 1, FALSE)
        close == IF open = 0 THEN 0 ELSE first_line(lines, open + 1, TRUE)
    IN  IF open = 0 \/ close = 0 THEN <<>>
        ELSE IF strip(lines[open]) # Dashes THEN <<>>
        ELSE scan_frontmatter(SubSeq(lines, open + 1, close - 1), 1, FALSE, <<>>)

\* C22: parse_tags returns no tags when the first non-empty line of the text is
\* not "---" or no closing "---" line follows it, and otherwise the tags of the
\* block between the first and the second "---" line and no others.
C22_TagsOnlyFromFirstBlock ==
    last.op = "parse_tags" => last.ret = tags_of_first_block(last.content)

\* ---------------------------------------------------------------------------
\* Moves and deletions that are refused
\* ---------------------------------------------------------------------------

\* The step is a call of move_note or delete_note that has to be refused: the
\* source is missing, a path leaves the notes directory, or the target of the
\* move exists.
MustRefuse ==
    /\ last'.op \in {"move_note", "delete_note"}
    /\ \/ ~exists(full_path(last'.path))
       \/ ~validate_path_security(last'.path)
       \/ /\ last'.op = "move_note"
          /\ \/ ~validate_path_security(last'.new_path)
             \/ exists(full_path(last'.new_path))

\* C23: move_note and delete_note return False and change neither the files on
\* disk nor the tag cache when the source note is missing, when a path leaves
\* the notes directory, or when the target of a move exists; and move_note
\* never replaces an existing file.
C23_RefusedMoveOrDeleteChangesNothing ==
    [][/\ MustRefuse =>
              /\ last'.ret = FALSE
              /\ files' = files /\ dirs' = dirs
              /\ tag_cache' = tag_cache
       /\ last'.op = "move_note" =>
              \A k \in DOMAIN files \cap DOMAIN files' :
                  k # full_path(last'.path) => files'[k] = files[k]]_vars

\* A move onto an existing note was refused while the cache held the tags of
\* both notes, and a deletion of a missing note was refused before it.
C23_Witness ==
    /\ last.op = "move_note" /\ last.ret = FALSE
    /\ last.path # last.new_path
    /\ {full_path(last.path), full_path(last.new_path)} \subseteq DOMAIN files
    /\ {full_path(last.path), full_path(last.new_path)} \subseteq DOMAIN tag_cache["services"]
    /\ files[full_path(last.path)] # files[full_path(last.new_path)]

\* C27: move_folder and delete_folder of a folder leave every cache entry of a
\* file that is not inside the folder as it was, also the entries of sibling
\* folders and of files whose path begins with the characters of the folder's
\* path.
C27_FolderOpsKeepOtherEntries ==
    [][last'.op \in {"move_folder", "delete_folder"} =>
           \A m \in Modules :
               \A key \in DOMAIN tag_cache[m] :
                   ~inside(key, full_path(last'.path)) =>
                       /\ key \in DOMAIN tag_cache'[m]
                       /\ tag_cache'[m][key] = tag_cache[m][key]]_vars

\* C28: in every graph the build returns, the source and the target of each
\* edge are ids of nodes of that graph.
C28_NoDanglingEdges ==
    GraphBuilt =>
        \A i \in DOMAIN last.edges :
            {last.edges[i].source, last.edges[i].target}
                \subseteq {last.nodes[n].id : n \in DOMAIN last.nodes}

\* The notes in every order they can be listed in.
orders(notes) ==
    {[i \in DOMAIN notes |-> notes[perm[i]]] : perm \in Permutations(DOMAIN notes)}

\* The edges of the graph built from the notes as listed.
edge_set(notes) == Range(graph_with(notes, all_links(notes, 1)).edges)

\* C29 as stated: the edges of the graph depend on the notes and their texts
\* only, not on the order the notes are listed in, also when two notes have
\* the same name up to case.
C29_EdgesIndependentOfOrder ==
    GraphBuilt =>
        \A listed \in orders(GraphNotes) : edge_set(listed) = Range(last.edges)

\* The notes listed with the name a wikilink target gives, up to case.
named(notes, raw) ==
    {i \in DOMAIN notes :
        lower(strip(raw)) \in {lower(notes[i].name),
                               lower(remove_all(notes[i].name, MdSuffix))}}

\* C29 as the code has it: the order the notes are listed in matters to the
\* edges only through the note that is listed last under a name or path
\* that several notes share up to case.  Orders that agree on those notes give
\* the same edges, and a link resolved by name goes to the note listed last
\* under the name.
C29_OrderMattersOnlyThroughLastOfAName ==
    GraphBuilt =>
        /\ \A listed \in orders(GraphNotes) :
               /\ note_paths_lower(listed) = note_paths_lower(GraphNotes)
               /\ note_names(listed) = note_names(GraphNotes)
               => edge_set(listed) = Range(last.edges)
        /\ \A i \in DOMAIN last.links :
               (last.links[i].type = "wikilink" /\ last.links[i].step = 4) =>
                   \E n \in named(GraphNotes, last.links[i].raw) :
                       /\ last.links[i].path = Some(GraphNotes[n].path)
                       /\ \A k \in named(GraphNotes, last.links[i].raw) : k <= n

\* A graph of two notes of one name up to case, with an edge from the note
\* listed last to the other one or the reverse, found by name: listed the other
\* way round the notes give other edges.
C29_Witness ==
    /\ GraphBuilt
    /\ Len(GraphNotes) = 2
    /\ lower(GraphNotes[1].name) = lower(GraphNotes[2].name)
    /\ \E i \in DOMAIN last.links :
           /\ last.links[i].type = "wikilink" /\ last.links[i].step = 4
           /\ last.links[i].path = Some(GraphNotes[2].path)
           /\ \E e \in DOMAIN last.edges : last.edges[e].target = GraphNotes[2].path
    /\ \E listed \in orders(GraphNotes) : edge_set(listed) # Range(last.edges)

\* ---------------------------------------------------------------------------
\* The git plugin's backup timer
\* ---------------------------------------------------------------------------
\* plugins holds the fields of the git plugin object and the backup-loop
\* threads it has started; last holds the call the server is executing and the
\* statement it has reached.  The server calls the plugin from one thread only
\* (at import, and from async request handlers on the event loop), so one call
\* is in progress at a time; the backup-loop threads run beside it.

\* The number of backup-loop threads a run may start.
MaxThreads == 3

\* The backup intervals in use, in seconds; 600 is the default.
Intervals == {60, 600}

\* Plugin(): the object after __init__, with the enabled flag the saved
\* configuration gives it.
GitPlugin(enabled) ==
    [enabled |-> enabled, backup_interval |-> 600, stop_event |-> FALSE,
     backup_thread |-> 0, threads |-> <<>>, started_up |-> FALSE]

\* self.backup_thread and self.backup_thread.is_alive()
backup_thread_is_alive ==
    /\ plugins.backup_thread # 0
    /\ plugins.threads[plugins.backup_thread].pc # "done"

\* No call is in progress.
Idle == last.pc = "returned"

git_frame == <<files, dirs, clock, mtime_history, tag_cache, config_file>>

\* run_hook("on_app_startup") reaches the enabled plugin: on_app_startup()
\* pulls and goes on to _start_backup_timer().
OnAppStartup ==
    /\ Idle /\ plugins.enabled /\ ~plugins.started_up
    /\ Len(plugins.threads) < MaxThreads
    /\ plugins' = [plugins EXCEPT !.started_up = TRUE]
    /\ last' = [op |-> "on_app_startup", pc |-> "start_check"]
    /\ UNCHANGED git_frame

\* update_settings(new_settings) with a backup_interval: the settings are
\* updated and the call goes on to stop_backup_timer().
UpdateSettings ==
    \E interval \in Intervals :
        /\ Idle
        /\ Len(plugins.threads) < MaxThreads
        /\ plugins' = [plugins EXCEPT !.backup_interval = interval]
        /\ last' = [op |-> "update_settings", pc |-> "stop_check", interval |-> interval]
        /\ UNCHANGED git_frame

\* enable_plugin("git") and disable_plugin("git") of the plugin manager.
ToggleGit ==
    \E enabled \in BOOLEAN :
        /\ Idle
        /\ plugins' = [plugins EXCEPT !.enabled = enabled]
        /\ last' = [op |-> "toggle", pc |-> "returned", enabled |-> enabled]
        /\ UNCHANGED git_frame

\* stop_backup_timer() called on its own.
StopBackupTimer ==
    /\ Idle
    /\ last' = [op |-> "stop_backup_timer", pc |-> "stop_check"]
    /\ UNCHANGED <<git_frame, plugins>>

\* on_app_startup() called again.
OnAppStartupAgain ==
    /\ Idle /\ plugins.started_up
    /\ Len(plugins.threads) < MaxThreads
    /\ last' = [op |-> "on_app_startup", pc |-> "start_check"]
    /\ UNCHANGED <<git_frame, plugins>>

\* stop_backup_timer: if self.backup_thread and self.backup_thread.is_alive()
StopCheck ==
    /\ last.pc = "stop_check"
    /\ last' = [last EXCEPT !.pc = IF backup_thread_is_alive THEN "stop_set"
                                   ELSE IF last.op = "update_settings" THEN "start_check"
                                   ELSE "returned"]
    /\ UNCHANGED <<git_frame, plugins>>

\* stop_backup_timer: self.stop_event.set()
StopSet ==
    /\ last.pc = "stop_set"
    /\ plugins' = [plugins EXCEPT !.stop_event = TRUE]
    /\ last' = [last EXCEPT !.pc = "join"]
    /\ UNCHANGED git_frame

\* stop_backup_timer: self.backup_thread.join(timeout=5) returns when the
\* thread has ended, or after five seconds while the thread is busy with a
\* backup (its git commands may take thirty seconds each).
Join ==
    /\ last.pc = "join"
    /\ \/ ~backup_thread_is_alive
       \/ plugins.threads[plugins.backup_thread].pc = "backup"
    /\ last' = [last EXCEPT !.pc = IF last.op = "update_settings" THEN "start_check"
                                   ELSE "returned"]
    /\ UNCHANGED <<git_frame, plugins>>

\* A start that does not look for a running thread.
StartCheck_unconditional ==
    /\ last.pc = "start_check"
    /\ last' = [last EXCEPT !.pc = "start_clear"]
    /\ UNCHANGED <<git_frame, plugins>>

\* _start_backup_timer: if the thread is alive, "already running", return
StartCheck ==
    /\ last.pc = "start_check"
    /\ last' = [last EXCEPT !.pc = IF backup_thread_is_alive THEN "returned"
                                   ELSE "start_clear"]
    /\ UNCHANGED <<git_frame, plugins>>

\* _start_backup_timer: self.stop_event.clear()
StartClear ==
    /\ last.pc = "start_clear"
    /\ plugins' = [plugins EXCEPT !.stop_event = FALSE]
    /\ last' = [last EXCEPT !.pc = "start_thread"]
    /\ UNCHANGED git_frame

\* _start_backup_timer: the thread is created and started; it is about to test
\* the loop condition.
StartThread ==
    /\ last.pc = "start_thread"
    /\ plugins' = [plugins EXCEPT
                      !.threads = Append(plugins.threads, [pc |-> "test", timeout |-> 0]),
                      !.backup_thread = Len(plugins.threads) + 1]
    /\ last' = [last EXCEPT !.pc = "returned"]
    /\ UNCHANGED git_frame

\* _backup_loop: while not self.stop_event.is_set(), and the call of
\* self.stop_event.wait(timeout=self.settings["backup_interval"])
LoopTest(t) ==
    /\ plugins.threads[t].pc = "test"
    /\ plugins' = [plugins EXCEPT
                      !.threads[t] = IF plugins.stop_event
                                     THEN [pc |-> "done", timeout |-> 0]
                                     ELSE [pc |-> "waiting",
                                           timeout |-> plugins.backup_interval]]
    /\ UNCHANGED <<git_frame, last>>

\* _backup_loop: wait() returns True, the event was set: break
WaitWoken(t) ==
    /\ plugins.threads[t].pc = "waiting"
    /\ plugins.stop_event
    /\ plugins' = [plugins EXCEPT !.threads[t] = [pc |-> "done", timeout |-> 0]]
    /\ UNCHANGED <<git_frame, last>>

\* _backup_loop: wait() returns False, the interval has passed:
\* self._git_commit_and_push() begins
WaitTimesOut(t) ==
    /\ plugins.threads[t].pc = "waiting"
    /\ ~plugins.stop_event
    /\ plugins' = [plugins EXCEPT !.threads[t].pc = "backup"]
    /\ UNCHANGED <<git_frame, last>>

\* _backup_loop: self._git_commit_and_push() returns
BackupEnds(t) ==
    /\ plugins.threads[t].pc = "backup"
    /\ plugins' = [plugins EXCEPT !.threads[t] = [pc |-> "test", timeout |-> 0]]
    /\ UNCHANGED <<git_frame, last>>

\* A step of the call in progress.
CallStep ==
    \/ StopCheck
    \/ StopSet
    \/ Join
    \/ StartCheck
    \/ StartClear
    \/ StartThread

\* A step of a backup-loop thread.
ThreadStep ==
    \E t \in 1..MaxThreads :
        /\ t \in DOMAIN plugins.threads
        /\ \/ LoopTest(t)
           \/ WaitWoken(t)
           \/ WaitTimesOut(t)
           \/ BackupEnds(t)

\* The server is about to load the plugin settings and run the startup hook.
InitGit ==
    /\ files = <<>>
    /\ dirs = {NotesDir}
    /\ clock = 0
    /\ mtime_history = "fresh"
    /\ tag_cache = [m \in Modules |-> <<>>]
    /\ config_file = [kind |-> "missing"]
    /\ \E enabled \in BOOLEAN : plugins = GitPlugin(enabled)
    /\ last = [op |-> "start", pc |-> "returned"]

\* The calls the server makes: the saved settings are applied, the startup hook
\* runs, and requests change the settings and toggle the plugin.
NextGit ==
    \/ OnAppStartup
    \/ UpdateSettings
    \/ ToggleGit
    \/ CallStep
    \/ ThreadStep

SpecGit == InitGit /\ [][NextGit]_vars

\* A call that has begun runs to its end, and a thread that can take a step
\* takes it: the interval passes, a backup ends.
SpecGitFair == SpecGit /\ WF_vars(CallStep) /\ WF_vars(ThreadStep)

\* The plugin's methods called in any order.
NextGitCalls ==
    \/ NextGit
    \/ StopBackupTimer
    \/ OnAppStartupAgain

SpecGitCalls == InitGit /\ [][NextGitCalls]_vars

\* update_settings has returned after setting the interval, and no other call
\* has begun since.
Returned(interval) ==
    last.op = "update_settings" /\ last.pc = "returned" /\ last.interval = interval

\* A backup-loop thread waits with the interval.
WaitsWith(interval) ==
    \E t \in DOMAIN plugins.threads :
        plugins.threads[t].pc = "waiting" /\ plugins.threads[t].timeout = interval

\* C24: after update_settings was called with a backup_interval and has
\* returned, a backup-loop thread comes to wait with the new interval (unless
\* another call comes first), also when a backup was in progress at the time of
\* the call.
C24_TimerRestartedWithNewInterval ==
    \A interval \in Intervals :
        [](Returned(interval) => <>(WaitsWith(interval) \/ ~Returned(interval)))

\* C25: while the plugin's enabled flag is false no backup of the timer begins.
C25_NoTimerBackupWhileDisabled ==
    [][\A t \in DOMAIN plugins.threads :
           (plugins.threads[t].pc = "waiting" /\ plugins'.threads[t].pc = "backup")
               => plugins.enabled]_vars

\* The backup-loop threads that are alive.
alive_threads == {t \in DOMAIN plugins.threads : plugins.threads[t].pc # "done"}

\* C30: at most one backup-loop thread is alive at any time, in whatever order
\* on_app_startup, update_settings and stop_backup_timer are called and however
\* the threads' steps fall between theirs.
C30_AtMostOneBackupLoop == Cardinality(alive_threads) <= 1

\* A third thread is in a backup, started by an update of the settings after
\* the first two threads had ended.
C30_Witness ==
    /\ Len(plugins.threads) = 3
    /\ alive_threads = {3}
    /\ last.op = "update_settings" /\ last.pc = "returned"
    /\ plugins.threads[3].pc = "backup"

\* ---------------------------------------------------------------------------
\* get_tags_cached beside another writer
\* ---------------------------------------------------------------------------
\* get_tags_cached in two steps, stat() and the read, with the writes of other
\* processes falling before, between and after them.  last holds the call and
\* the statement it has reached.

\* get_tags_cached(file_path) up to the cache test: stat(), and the cached
\* tags if the entry's mtime is the file's.
GetTagsStat ==
    \E rel \in NotePaths :
        LET key == full_path(rel)
            cache == tag_cache["services"]
        IN  /\ last.pc = "returned"
            /\ last' = IF key \in DOMAIN cache /\ cache[key].mtime = files[key].mtime
                       THEN [op |-> "get_tags_cached", pc |-> "returned", path |-> rel,
                             mtime |-> files[key].mtime, ret |-> cache[key].tags,
                             opened |-> FALSE, raced |-> FALSE]
                       ELSE [op |-> "get_tags_cached", pc |-> "open", path |-> rel,
                             mtime |-> files[key].mtime, ret |-> <<>>,
                             opened |-> FALSE, raced |-> FALSE]
            /\ UNCHANGED <<cache_vars, plugin_vars>>

\* A read that stamps the entry with the file's mtime at the time of the read.
GetTagsRead_stamped_at_read ==
    LET key == full_path(last.path)
        tags == parse_tags(files[key].content)
    IN  /\ last.pc = "open"
        /\ tag_cache' = IF files[key].utf8
                        THEN [tag_cache EXCEPT !["services"] =
                                 with(@, key, [mtime |-> files[key].mtime, tags |-> tags])]
                        ELSE tag_cache
        /\ last' = [last EXCEPT !.pc = "returned",
                                !.ret = IF files[key].utf8 THEN tags ELSE <<>>,
                                !.opened = TRUE,
                                !.raced = files[key].mtime # last.mtime]
        /\ UNCHANGED <<files, dirs, clock, mtime_history, plugin_vars>>

\* get_tags_cached(file_path) from the open() on: the file is read and parsed
\* as it is now and the entry is stored with the mtime stat() gave; a file that
\* is no UTF-8 text gives [] and no entry.
GetTagsRead ==
    LET key == full_path(last.path)
        tags == parse_tags(files[key].content)
    IN  /\ last.pc = "open"
        /\ tag_cache' = IF files[key].utf8
                        THEN [tag_cache EXCEPT !["services"] =
                                 with(@, key, [mtime |-> last.mtime, tags |-> tags])]
                        ELSE tag_cache
        /\ last' = [last EXCEPT !.pc = "returned",
                                !.ret = IF files[key].utf8 THEN tags ELSE <<>>,
                                !.opened = TRUE,
                                !.raced = files[key].mtime # last.mtime]
        /\ UNCHANGED <<files, dirs, clock, mtime_history, plugin_vars>>

\* Another process rewrites a note with any bytes and any mtime up to the
\* current time, whatever statement a call of the server has reached.
ConcurrentWrite ==
    \E rel \in NotePaths, written \in WrittenBytes, mtime \in 1..MaxClock :
        LET key == full_path(rel)
        IN  /\ clock < MaxClock
            /\ mtime <= clock + 1
            /\ clock' = clock + 1
            /\ files' = [files EXCEPT ![key] = [mtime |-> mtime,
                                                content |-> written.content,
                                                utf8 |-> written.utf8]]
            /\ mtime_history' =
                   IF mtime > clock THEN mtime_history
                   ELSE IF mtime = files[key].mtime \/ mtime_history = "kept"
                   THEN "kept"
                   ELSE "changed"
            /\ UNCHANGED <<dirs, tag_cache, plugin_vars, last>>

\* The notes exist, written at time 1; nothing is cached.
InitRace ==
    /\ files = [key \in {full_path(rel) : rel \in NotePaths} |->
                   [mtime |-> 1, content |-> NoteX, utf8 |-> TRUE]]
    /\ dirs = {NotesDir} \cup {full_path(f) : f \in FolderNames}
    /\ clock = 1
    /\ mtime_history = "fresh"
    /\ tag_cache = [m \in Modules |-> <<>>]
    /\ plugins = <<>>
    /\ config_file = [kind |-> "missing"]
    /\ last = [op |-> "start", pc |-> "returned"]

NextRace ==
    \/ GetTagsStat
    \/ GetTagsRead
    \/ ConcurrentWrite

SpecRace == InitRace /\ [][NextRace]_vars

\* A call has returned that read the note after another process had rewritten
\* it with another mtime since the call's stat().
RacedRead(rel) ==
    /\ last.op = "get_tags_cached" /\ last.pc = "returned"
    /\ last.path = rel /\ last.raced

\* The entry of the note passes for valid, its mtime being the file's, and
\* holds other tags than the file's content gives.
stale(rel) ==
    LET key == full_path(rel)
        cache == tag_cache["services"]
    IN  /\ key \in DOMAIN cache
        /\ cache[key].mtime = files[key].mtime
        /\ \/ ~files[key].utf8
           \/ cache[key].tags # parse_tags(files[key].content)

\* The step is the return of a call that read a text file rewritten since the
\* call's stat(): the entry it stores carries the mtime of the stat(), which is
\* not the file's, so that the next call reads the file again.
StoresUnderOlderMtime ==
    (/\ last.pc = "open" /\ last'.pc = "returned"
     /\ last'.raced /\ files[full_path(last.path)].utf8)
        => /\ full_path(last.path) \in DOMAIN tag_cache'["services"]
           /\ tag_cache'["services"][full_path(last.path)].mtime = last.mtime
           /\ tag_cache'["services"][full_path(last.path)].mtime
                  # files'[full_path(last.path)].mtime

\* C26 as stated: when another writer rewrites the file between the stat and
\* the read of get_tags_cached, and every rewrite changes the file's mtime, the
\* entry stored carries the older mtime, and after the call no entry of the
\* file with the file's current mtime holds the tags of an older content.
C26_RacedEntryNeverPassesForCurrent ==
    /\ [](\A rel \in NotePaths :
              RacedRead(rel) => (mtime_history = "kept" \/ ~stale(rel)))
    /\ [][StoresUnderOlderMtime]_vars

\* C26 amended: when every rewrite gives the file an mtime later than every
\* mtime given before, the entry stored after a rewrite between the stat and the
\* read carries the older mtime, and no entry, stored by such a call or by
\* another, has the file's current mtime and the tags of an older content.
C26_RacedEntryStaysOutdated ==
    /\ [](mtime_history = "fresh" => \A rel \in NotePaths : ~stale(rel))
    /\ [][StoresUnderOlderMtime]_vars

\* A call read the note's new text after its stat() had seen the old mtime,
\* and stored the new tags under the old mtime.
C26_Witness ==
    /\ \E rel \in NotePaths : RacedRead(rel)
    /\ mtime_history = "fresh"
    /\ last.ret = << <<"y">> >>
    /\ tag_cache["services"][full_path(last.path)] = [mtime |-> 1, tags |-> << <<"y">> >>]
    /\ files[full_path(last.path)].mtime = 2

====
